---- MODULE Spec2Model ----
(***************************************************************************)
(* A model of the Cortex Core command/response subsystem:                  *)
(*   - ChunkAssembler.feed and CortexProtocol.chunk_response               *)
(*     (cortex_protocol.py), on strings represented as sequences of        *)
(*     Unicode code points and on byte sequences in real UTF-8;            *)
(*   - the dispatcher's handlers (cortex_protocol.py) on the store         *)
(*     (cortex_db.py), with the connection's view of the database and the  *)
(*     committed image kept apart.                                         *)
(***************************************************************************)
EXTENDS Integers, Sequences, FiniteSets, TLC

VARIABLES
    asm,          \* ChunkAssembler fields: chunks, expected, received, started
    mono,         \* time.monotonic(), in seconds
    feedOut,      \* return value of the last ChunkAssembler.feed
    run,          \* history of the reassembly in progress (what the peer sent)
    rt,           \* chunk_response round trip in progress
    db,           \* the store as the shared connection sees it
    disk,         \* the committed store
    active_session_id,   \* CortexProtocol._active_session_id
    clock,        \* the wall clock behind datetime('now'), in seconds
    last,         \* the last command handled and its response
    ncmds,        \* number of commands handled
    conn,         \* the shared connection's last insert rowid, the calls of
                  \* the two transports' threads in progress, their returns
    fs,           \* the files in the recordings, notes, logs and uploads
                  \* directories: their names and their bytes
    snap,         \* the store's main file, the sidecar copies of GET /files/db
                  \* and the requests for it in progress
    ble,          \* the BLEClient: its fields, its queues, the position of
                  \* its worker, and what the peer has sent on the connection
    dev           \* main(): app_state, note_text, the recorder's process, the
                  \* speech engine, and what the last BLE message was answered

chunkVars == <<asm, mono, feedOut, run, rt>>
auxVars == <<snap, ble, dev>>
storeVars0 == <<db, disk, active_session_id, clock, last, ncmds, conn, fs>>
storeVars == <<db, disk, active_session_id, clock, last, ncmds, conn, fs, auxVars>>
vars == <<asm, mono, feedOut, run, rt, db, disk, active_session_id, clock, last, ncmds, conn, fs, snap, ble, dev>>

(***************************************************************************)
(* Strings.  A Python str is a sequence of code points; None, where a str  *)
(* is expected, is a value that is no string.                              *)
(***************************************************************************)
NoneStr == <<-1>>
\* no value at all: the call raised
RaisedStr == <<-2>>

ChSlash == 47
ChColon == 58
ChMinus == 45
ChPlus == 43
ChSpace == 32
ChZero == 48
ChReplacement == 65533

StrCHUNK == <<67, 72, 85, 78, 75, 58>>

IsDigit(c) == c >= ChZero /\ c <= ChZero + 9

Min(a, b) == IF a <= b THEN a ELSE b

\* s[i:] of Python, i counted from 0
Drop(s, i) == IF i >= Len(s) THEN <<>> ELSE SubSeq(s, i + 1, Len(s))

\* s[:i] of Python
Take(s, i) == IF i <= 0 THEN <<>> ELSE SubSeq(s, 1, Min(i, Len(s)))

StartsWith(s, p) == Len(s) >= Len(p) /\ SubSeq(s, 1, Len(p)) = p

\* str.index(c): the 0-based position of the first c, or -1 (index raises
\* ValueError there; the caller decides)
IndexOf(s, c) ==
    IF \E i \in 1..Len(s) : s[i] = c
    THEN (CHOOSE i \in 1..Len(s) : s[i] = c /\ \A j \in 1..(i - 1) : s[j] # c) - 1
    ELSE -1

RECURSIVE DecDigits(_)
DecDigits(n) ==
    IF n < 10 THEN <<ChZero + n>>
    ELSE Append(DecDigits(n \div 10), ChZero + (n % 10))

\* str(n) / f"{n}" for an int
Dec(n) == IF n < 0 THEN <<ChMinus>> \o DecDigits(-n) ELSE DecDigits(n)

RECURSIVE DigitsValue(_)
DigitsValue(s) ==
    IF s = <<>> THEN 0
    ELSE 10 * DigitsValue(SubSeq(s, 1, Len(s) - 1)) + (s[Len(s)] - ChZero)

RECURSIVE StripSpaces(_)
StripSpaces(s) ==
    IF s = <<>> THEN s
    ELSE IF s[1] = ChSpace THEN StripSpaces(Tail(s))
    ELSE IF s[Len(s)] = ChSpace THEN StripSpaces(SubSeq(s, 1, Len(s) - 1))
    ELSE s

\* the number of decimal digits of sys.maxsize (2^63 - 1): an int written with
\* more significant digits fits no index-sized integer
INDEX_DIGITS == 19

\* an int above sys.maxsize; the model computes with no other int of that size
HugeInt == 2147483647

RECURSIVE SignificantDigits(_)
SignificantDigits(s) ==
    IF Len(s) > 1 /\ s[1] = ChZero THEN SignificantDigits(Tail(s)) ELSE s

\* the value of a digit string: Python ints are unbounded
IntValue(digits) ==
    IF Len(SignificantDigits(digits)) > INDEX_DIGITS THEN HugeInt
    ELSE DigitsValue(digits)

\* int(t) for a stripped t: an optional sign, then decimal digits; anything
\* else raises ValueError (ok = FALSE)
ParseIntDigits(negative, digits) ==
    IF digits # <<>> /\ \A i \in 1..Len(digits) : IsDigit(digits[i])
    THEN [ok |-> TRUE,
          val |-> IF negative THEN 0 - IntValue(digits) ELSE IntValue(digits)]
    ELSE [ok |-> FALSE, val |-> 0]

ParseIntStripped(t) ==
    IF t # <<>> /\ t[1] \in {ChMinus, ChPlus}
    THEN ParseIntDigits(t[1] = ChMinus, Tail(t))
    ELSE ParseIntDigits(FALSE, t)

\* int(s): surrounding blanks are stripped first
ParseInt(s) == ParseIntStripped(StripSpaces(s))

RECURSIVE Join(_)
\* "".join(list of str)
Join(parts) ==
    IF parts = <<>> THEN <<>>
    ELSE IF Len(parts) = 1 THEN parts[1]
    ELSE Join(Take(parts, Len(parts) \div 2)) \o Join(Drop(parts, Len(parts) \div 2))

(***************************************************************************)
(* ChunkAssembler                                                          *)
(***************************************************************************)
CORTEX_CHUNK_TIMEOUT_S == 30

\* ChunkAssembler.__init__ and ChunkAssembler.reset
AsmEmpty == [chunks |-> <<>>, expected |-> 0, received |-> {}, started |-> 0]

ChunkBad == [ok |-> FALSE, seq |-> 0, total |-> 0, data |-> <<>>]

\* total = int(rest[:colon_idx]); data = rest[colon_idx + 1:]
ParseChunkTotal(seq, total, data) ==
    IF total.ok
    THEN [ok |-> TRUE, seq |-> seq.val, total |-> total.val, data |-> data]
    ELSE ChunkBad

\* colon_idx = rest.index(":")
ParseChunkColon(seq, rest, colon_idx) ==
    IF seq.ok /\ colon_idx # -1
    THEN ParseChunkTotal(seq, ParseInt(Take(rest, colon_idx)), Drop(rest, colon_idx + 1))
    ELSE ChunkBad

ParseChunkRest(seq, rest) == ParseChunkColon(seq, rest, IndexOf(rest, ChColon))

\* slash_idx = prefix.index("/"); seq = int(prefix[:slash_idx]); rest = prefix[slash_idx + 1:]
ParseChunkSlash(prefix, slash_idx) ==
    IF slash_idx # -1
    THEN ParseChunkRest(ParseInt(Take(prefix, slash_idx)), Drop(prefix, slash_idx + 1))
    ELSE ChunkBad

ParseChunkPrefix(prefix) == ParseChunkSlash(prefix, IndexOf(prefix, ChSlash))

\* the parse of feed: CHUNK:<seq>/<total>:<data>; ok = FALSE where the try
\* block raises ValueError or IndexError
ParseChunk(raw_msg) == ParseChunkPrefix(Drop(raw_msg, 6))

\* a reset for a new total only
FeedResets_NoTimeout(a, total, now) == total # a.expected

\* "new sequence or timeout": the condition of the first reset in feed
FeedResets(a, total, now) ==
    total # a.expected \/ (a.started # 0 /\ now - a.started > CORTEX_CHUNK_TIMEOUT_S)

\* a 0-based range test in place of the 1-based one
FeedStores_ZeroBased(seq, total) == 0 <= seq /\ seq < total

\* the slot store of feed
FeedStores(seq, total) == 1 <= seq /\ seq <= total

\* the completion test of feed
FeedComplete(a) == Cardinality(a.received) = a.expected

\* if total != self._expected or (timed out): self.reset()
FeedReset(a, total, now) == IF FeedResets(a, total, now) THEN AsmEmpty ELSE a

\* if not self._chunks: allocate the slots, record total, start the timer
FeedAlloc(a, total, now) ==
    IF a.chunks = <<>>
    THEN [a EXCEPT !.chunks = [i \in 1..total |-> NoneStr],
                   !.expected = total,
                   !.started = now]
    ELSE a

\* if 1 <= seq <= total: store data at seq - 1, mark seq received
FeedStore(a, seq, total, data) ==
    IF FeedStores(seq, total)
    THEN [a EXCEPT !.chunks[seq] = data, !.received = @ \cup {seq}]
    ELSE a

\* "".join(self._chunks): TypeError when a slot is still None
JoinChunks(chunks) ==
    IF \E i \in 1..Len(chunks) : chunks[i] = NoneStr THEN RaisedStr ELSE Join(chunks)

\* if len(self._received) == self._expected: join, reset, return
FeedFinish(a) ==
    IF FeedComplete(a)
    THEN [asm |-> AsmEmpty, out |-> JoinChunks(a.chunks)]
    ELSE [asm |-> a, out |-> NoneStr]

\* [None] * total raises OverflowError when total fits no index-sized integer
AllocRaises(total) == total >= HugeInt

\* the allocation stands outside the try block of feed: what it raises leaves
\* feed, the assembler as the reset before it left it
FeedAllocated(a, p, now) ==
    IF a.chunks = <<>> /\ AllocRaises(p.total)
    THEN [asm |-> a, out |-> RaisedStr]
    ELSE FeedFinish(FeedStore(FeedAlloc(a, p.total, now), p.seq, p.total, p.data))

\* a line that does not parse leaves the assembler as it is
FeedParsed_KeepsOnBad(a, p, now) ==
    IF p.ok
    THEN FeedAllocated(FeedReset(a, p.total, now), p, now)
    ELSE [asm |-> a, out |-> NoneStr]

\* the parse failed: self.reset(); return None.  Otherwise the rest of feed.
FeedParsed(a, p, now) ==
    IF p.ok
    THEN FeedAllocated(FeedReset(a, p.total, now), p, now)
    ELSE [asm |-> AsmEmpty, out |-> NoneStr]

\* ChunkAssembler.feed: the new assembler state and the returned value
Feed(a, raw_msg, now) == FeedParsed(a, ParseChunk(raw_msg), now)

\* f"CHUNK:{seq}/{total}:{data}"
FormatChunk(seq, total, data) ==
    StrCHUNK \o Dec(seq) \o <<ChSlash>> \o Dec(total) \o <<ChColon>> \o data

(***************************************************************************)
(* UTF-8.  str.encode("utf-8") and bytes.decode("utf-8", errors="replace") *)
(* on code points below U+10000 (surrogates excluded).                     *)
(***************************************************************************)
Utf8Bytes(cp) ==
    IF cp < 128 THEN <<cp>>
    ELSE IF cp < 2048 THEN <<192 + (cp \div 64), 128 + (cp % 64)>>
    ELSE <<224 + (cp \div 4096), 128 + ((cp \div 64) % 64), 128 + (cp % 64)>>

\* msg.encode("utf-8")
Utf8Encode(msg) == Join([i \in 1..Len(msg) |-> Utf8Bytes(msg[i])])

IsCont(b) == b >= 128 /\ b <= 191

\* the second byte a three-byte lead accepts (no overlong forms, no surrogates)
ValidSecond(lead, b) ==
    IF lead = 224 THEN b >= 160 /\ b <= 191
    ELSE IF lead = 237 THEN b >= 128 /\ b <= 159
    ELSE IsCont(b)

IsAscii(bytes) == \A i \in 1..Len(bytes) : bytes[i] < 128

\* the bytes from the first one that is not ASCII
NonAsciiTail(bytes) ==
    Drop(bytes, (CHOOSE i \in 1..Len(bytes) :
                    bytes[i] >= 128 /\ \A j \in 1..(i - 1) : bytes[j] < 128) - 1)

\* the ASCII bytes before the first one that is not
AsciiRun(bytes) ==
    IF IsAscii(bytes) THEN bytes ELSE Take(bytes, Len(bytes) - Len(NonAsciiTail(bytes)))

RECURSIVE Utf8Decode(_)
RECURSIVE Utf8Decode2(_)
RECURSIVE Utf8Decode3(_)

\* a two-byte lead: the character, or U+FFFD for a truncated or broken sequence
Utf8Decode2(b) ==
    IF Len(b) < 2 THEN <<ChReplacement>>
    ELSE IF IsCont(b[2])
    THEN <<(b[1] - 192) * 64 + (b[2] - 128)>> \o Utf8Decode(Drop(b, 2))
    ELSE <<ChReplacement>> \o Utf8Decode(Tail(b))

\* a three-byte lead: one U+FFFD stands for the whole valid prefix of a
\* truncated or broken sequence
Utf8Decode3(b) ==
    IF Len(b) < 2 THEN <<ChReplacement>>
    ELSE IF ~ValidSecond(b[1], b[2]) THEN <<ChReplacement>> \o Utf8Decode(Tail(b))
    ELSE IF Len(b) < 3 THEN <<ChReplacement>>
    ELSE IF ~IsCont(b[3]) THEN <<ChReplacement>> \o Utf8Decode(Drop(b, 2))
    ELSE <<(b[1] - 224) * 4096 + (b[2] - 128) * 64 + (b[3] - 128)>>
         \o Utf8Decode(Drop(b, 3))

\* bytes.decode("utf-8", errors="replace"): a byte that starts no sequence
\* (a stray continuation byte, 0xC0, 0xC1, 0xF0 and above here) is one U+FFFD
Utf8Decode(b) ==
    IF b = <<>> THEN <<>>
    ELSE IF b[1] < 128 THEN AsciiRun(b) \o Utf8Decode(Drop(b, Len(AsciiRun(b))))
    ELSE IF b[1] >= 194 /\ b[1] <= 223 THEN Utf8Decode2(b)
    ELSE IF b[1] >= 224 /\ b[1] <= 239 THEN Utf8Decode3(b)
    ELSE <<ChReplacement>> \o Utf8Decode(Tail(b))

(***************************************************************************)
(* CortexProtocol.chunk_response                                           *)
(***************************************************************************)
HEADER_RESERVE == 16

\* encoded[i:i + chunk_data_size].decode("utf-8", errors="replace") for the
\* k-th slice, k from 1
ChunkPart(encoded, chunk_data_size, k) ==
    Utf8Decode(SubSeq(encoded, (k - 1) * chunk_data_size + 1,
                      Min(k * chunk_data_size, Len(encoded))))

\* len(range(0, len(encoded), chunk_data_size))
NumParts(len, chunk_data_size) == (len + chunk_data_size - 1) \div chunk_data_size

\* the chunked branch of chunk_response
ChunkList(encoded, chunk_data_size, total) ==
    [k \in 1..total |->
        FormatChunk(k, total, ChunkPart(encoded, chunk_data_size, k))]

ChunkEncoded(msg, encoded, max_size) ==
    IF Len(encoded) <= max_size THEN <<msg>>
    ELSE ChunkList(encoded, max_size - HEADER_RESERVE,
                   NumParts(Len(encoded), max_size - HEADER_RESERVE))

\* chunk_response(msg, max_size), for max_size > 16
ChunkResponse(msg, max_size) == ChunkEncoded(msg, Utf8Encode(msg), max_size)

(***************************************************************************)
(* The store (cortex_db.py).  A table is the sequence of its rows in rowid *)
(* order; seq is sqlite_sequence, the largest rowid an AUTOINCREMENT table *)
(* ever held.  Text values are strings; None is Python None and SQL NULL.  *)
(* An operation takes and returns s = [db, disk, ret]: the connection's    *)
(* view, the committed image and the value returned to the caller.         *)
(***************************************************************************)
None == "<None>"

EmptyDB ==
    [notes |-> <<>>, activities |-> <<>>, searches |-> <<>>, sessions |-> <<>>,
     projects |-> <<>>, computers |-> <<>>, people |-> <<>>, files |-> <<>>,
     seq |-> [notes |-> 0, activities |-> 0, searches |-> 0, files |-> 0]]

\* INTEGER PRIMARY KEY AUTOINCREMENT: one more than the largest rowid ever used
NextRowid(d, table) == d.seq[table] + 1

\* the commit is left out
Commit_Forgotten(s) == s

\* self._conn.commit()
Commit(s) == [s EXCEPT !.disk = s.db]

\* an INSERT into an AUTOINCREMENT table; ret is the connection's last insert
\* rowid, which a call running alone finds in cur.lastrowid
\* PRAGMA foreign_keys=ON and FOREIGN KEY (session_id) REFERENCES sessions(id):
\* a link that names no row of sessions fails the statement
ForeignKeyFails(d, row) ==
    row.session_id # None /\ \A i \in 1..Len(d.sessions) : d.sessions[i].id # row.session_id

\* self._conn.execute("INSERT ..."): the row is appended, or
\* sqlite3.IntegrityError is raised and nothing is written
ExecInsert(s, table, row) ==
    IF ForeignKeyFails(s.db, row)
    THEN [s EXCEPT !.exc = "FOREIGN KEY constraint failed"]
    ELSE [s EXCEPT !.db[table] = Append(@, row),
                   !.db.seq[table] = row.id,
                   !.ret = row.id]

\* the commit that follows the INSERT, not reached when the INSERT raised
Committed(s) == IF s.exc # None THEN s ELSE Commit(s)

\* the VALUES of the INSERT statements
NoteRow(d, content, tags, project, note_type, source, session_id, t) ==
    [id |-> NextRowid(d, "notes"), content |-> content, tags |-> tags,
     project |-> project, note_type |-> note_type, source |-> source,
     session_id |-> session_id, created_at |-> t]

ActivityRow(d, program, details, file_path, project, session_id, duration_min, t) ==
    [id |-> NextRowid(d, "activities"), program |-> program, details |-> details,
     file_path |-> file_path, project |-> project, session_id |-> session_id,
     duration_min |-> duration_min, created_at |-> t]

SearchRow(d, query, source, url, project, session_id, t) ==
    [id |-> NextRowid(d, "searches"), query |-> query, source |-> source,
     url |-> url, project |-> project, session_id |-> session_id,
     created_at |-> t]

FileRow(d, filename, category, description, tags, project, mime_type, size_bytes, source, session_id, t) ==
    [id |-> NextRowid(d, "files"), filename |-> filename, category |-> category,
     description |-> description, tags |-> tags, project |-> project,
     mime_type |-> mime_type, size_bytes |-> size_bytes, source |-> source,
     session_id |-> session_id, created_at |-> t]

\* CortexDB.insert_note: execute, commit, return cur.lastrowid
insert_note(s, content, tags, project, note_type, source, session_id, t) ==
    Committed(ExecInsert(s, "notes",
        NoteRow(s.db, content, tags, project, note_type, source, session_id, t)))

\* CortexDB.insert_activity
insert_activity(s, program, details, file_path, project, session_id, duration_min, t) ==
    Committed(ExecInsert(s, "activities",
        ActivityRow(s.db, program, details, file_path, project, session_id,
                    duration_min, t)))

\* CortexDB.insert_search
insert_search(s, query, source, url, project, session_id, t) ==
    Committed(ExecInsert(s, "searches",
        SearchRow(s.db, query, source, url, project, session_id, t)))

\* CortexDB.insert_file
insert_file(s, filename, category, description, tags, project, mime_type, size_bytes, source, session_id, t) ==
    Committed(ExecInsert(s, "files",
        FileRow(s.db, filename, category, description, tags, project, mime_type,
                size_bytes, source, session_id, t)))

\* DELETE FROM files WHERE id = ?; returns cur.rowcount > 0
ExecDeleteFile(s, file_id) ==
    LET Other(r) == r.id # file_id
    IN  [s EXCEPT !.db.files = SelectSeq(@, Other),
                  !.ret = \E i \in 1..Len(s.db.files) : s.db.files[i].id = file_id]

\* CortexDB.delete_file
delete_file(s, file_id) == Commit(ExecDeleteFile(s, file_id))

\* the position of the row whose column key holds k, or 0
RowIndex(rows, key, k) ==
    IF \E i \in 1..Len(rows) : rows[i][key] = k
    THEN CHOOSE i \in 1..Len(rows) : rows[i][key] = k
    ELSE 0

\* INSERT OR REPLACE in place of ON CONFLICT DO UPDATE: the whole row is new
ExecUpsertAt_Replace(s, table, i, row, upd) ==
    IF i = 0
    THEN [s EXCEPT !.db[table] = Append(@, row)]
    ELSE [s EXCEPT !.db[table][i] = row]

\* INSERT ... ON CONFLICT(key) DO UPDATE SET ...: a new row is appended; on a
\* conflict the columns of upd are overwritten and the others kept
ExecUpsertAt(s, table, i, row, upd) ==
    IF i = 0
    THEN [s EXCEPT !.db[table] = Append(@, row)]
    ELSE [s EXCEPT !.db[table][i] =
              [c \in DOMAIN row |-> IF c \in upd THEN row[c] ELSE @[c]]]

ExecUpsert(s, table, key, row, upd) ==
    ExecUpsertAt(s, table, RowIndex(s.db[table], key, row[key]), row, upd)

\* NULL in sessions.ended_at, whose other values are the clock's seconds
NullTime == -1

\* the INSERT of start_session
ExecInsertSession(s, session_id, ai_platform, hostname, os_info, t) ==
    [s EXCEPT !.db.sessions = Append(@,
                  [id |-> session_id, ai_platform |-> ai_platform,
                   hostname |-> hostname, os_info |-> os_info, started_at |-> t,
                   ended_at |-> NullTime, summary |-> "", projects |-> ""]),
              !.ret = session_id]

\* "Upsert computer record" of start_session, when hostname is given
ExecSessionComputer(s, hostname, os_info, t) ==
    IF hostname \in {"", None} THEN s
    ELSE ExecUpsert(s, "computers", "hostname",
             [hostname |-> hostname, os |-> os_info, cpu |-> "", gpu |-> "",
              ram_gb |-> 0, first_seen |-> t, last_seen |-> t, notes |-> ""],
             {"os", "last_seen"})

\* CortexDB.start_session; session_id is the uuid4 drawn
start_session(s, session_id, ai_platform, hostname, os_info, t) ==
    Commit(ExecSessionComputer(
        ExecInsertSession(s, session_id, ai_platform, hostname, os_info, t),
        hostname, os_info, t))

\* the UPDATE of end_session without "AND ended_at IS NULL"
EndMatches_AnyRow(row, session_id) == row.id = session_id

\* WHERE id=? AND ended_at IS NULL
EndMatches(row, session_id) == row.id = session_id /\ row.ended_at = NullTime

\* UPDATE sessions SET ended_at=datetime('now'), summary=?, projects=? WHERE ...;
\* returns cur.rowcount > 0
ExecEndSession(s, session_id, summary, projects, t) ==
    [s EXCEPT !.db.sessions =
                  [i \in 1..Len(@) |->
                      IF EndMatches(@[i], session_id)
                      THEN [@[i] EXCEPT !.ended_at = t, !.summary = summary,
                                        !.projects = projects]
                      ELSE @[i]],
              !.ret = \E i \in 1..Len(s.db.sessions) :
                          EndMatches(s.db.sessions[i], session_id)]

\* CortexDB.end_session
end_session(s, session_id, summary, projects, t) ==
    Commit(ExecEndSession(s, session_id, summary, projects, t))

\* CortexDB.upsert_project
upsert_project(s, tag, name, status, priority, description, collaborators, t) ==
    Commit([ExecUpsert(s, "projects", "tag",
                [tag |-> tag, name |-> name, status |-> status,
                 priority |-> priority, description |-> description,
                 collaborators |-> collaborators, last_touched |-> t,
                 created_at |-> t],
                {"name", "status", "priority", "description", "collaborators",
                 "last_touched"})
            EXCEPT !.ret = tag])

\* CortexDB.register_computer
register_computer(s, hostname, os, cpu, gpu, ram_gb, notes, t) ==
    Commit([ExecUpsert(s, "computers", "hostname",
                [hostname |-> hostname, os |-> os, cpu |-> cpu, gpu |-> gpu,
                 ram_gb |-> ram_gb, first_seen |-> t, last_seen |-> t,
                 notes |-> notes],
                {"os", "cpu", "gpu", "ram_gb", "notes", "last_seen"})
            EXCEPT !.ret = hostname])

\* CortexDB.upsert_person
upsert_person(s, person_id, name, role, email, projects, notes, t) ==
    Commit([ExecUpsert(s, "people", "id",
                [id |-> person_id, name |-> name, role |-> role, email |-> email,
                 projects |-> projects, notes |-> notes, created_at |-> t],
                {"name", "role", "email", "projects", "notes"})
            EXCEPT !.ret = person_id])

\* active_sessions counted without "WHERE ended_at IS NULL"
get_stats_EveryActive(d) ==
    [notes_total |-> Len(d.notes),
     activities_total |-> Len(d.activities),
     searches_total |-> Len(d.searches),
     active_sessions |-> Len(d.sessions),
     sessions_total |-> Len(d.sessions),
     projects_total |-> Len(d.projects),
     files_total |-> Len(d.files)]

\* CortexDB.get_stats
get_stats(d) ==
    LET Open(r) == r.ended_at = NullTime
    IN  [notes_total |-> Len(d.notes),
         activities_total |-> Len(d.activities),
         searches_total |-> Len(d.searches),
         active_sessions |-> Len(SelectSeq(d.sessions, Open)),
         sessions_total |-> Len(d.sessions),
         projects_total |-> Len(d.projects),
         files_total |-> Len(d.files)]

(***************************************************************************)
(* The dispatcher (cortex_protocol.py).  A payload is the empty string, a  *)
(* text that is no JSON, a JSON value that is no object, or a JSON object  *)
(* (a function from its keys to their values).  A handler takes and        *)
(* returns st = [db, disk, ret, cell, resp]: the store, the active-session *)
(* cell and the response string, kept as its three parts kind:name:body.   *)
(***************************************************************************)
\* {} in Python: the object without keys
EmptyObj == [k \in {} |-> None]

PEmpty == [kind |-> "empty", obj |-> EmptyObj]
PBad == [kind |-> "bad", obj |-> EmptyObj]
PNonObj == [kind |-> "nonobj", obj |-> EmptyObj]
PObj(o) == [kind |-> "obj", obj |-> o]

NoResp == [kind |-> "none", name |-> "", body |-> ""]
Ack(name, body) == [kind |-> "ACK", name |-> name, body |-> body]
Err(name, body) == [kind |-> "ERR", name |-> name, body |-> body]
Rsp(name, body) == [kind |-> "RSP", name |-> name, body |-> body]

\* json.loads(payload) if payload else {} raises, or .get fails on the result
LoadFails(payload) == payload.kind \in {"bad", "nonobj"}

\* except Exception as e: return f"ERR:{cmd}:{e}"
Fault(st, cmd, payload) ==
    [st EXCEPT !.resp = Err(cmd, IF payload.kind = "bad" THEN "Expecting value"
                                 ELSE "object has no attribute 'get'")]

\* data.get(key, default)
Get(data, key, default) == IF key \in DOMAIN data THEN data[key] ELSE default

\* not v, for the values of the model: the empty string and None
Falsy(v) == v \in {"", None}

\* the session link a handler passes to the insert
SessionLink_Dropped(st) == None

SessionLink(st) == st.cell

\* a handler that writes before it validates
Validated_Never(v) == TRUE

\* the required-field test of a handler: if not <field>: return ERR
Validated(v) == ~Falsy(v)

\* the ACK of a handler; what the store raised is answered by _dispatch
AckRet(st, name) ==
    IF st.exc # None THEN [st EXCEPT !.resp = Err(name, st.exc)]
    ELSE [st EXCEPT !.resp = Ack(name, st.ret)]

\* _cmd_note
CmdNoteData(st, data, t) ==
    IF ~Validated(Get(data, "content", ""))
    THEN [st EXCEPT !.resp = Err("note", "missing content field")]
    ELSE AckRet(insert_note(st, Get(data, "content", ""), Get(data, "tags", ""),
                            Get(data, "project", ""), Get(data, "type", "note"),
                            "ble", SessionLink(st), t),
                "note")

CmdNote(st, payload, t) ==
    IF LoadFails(payload) THEN Fault(st, "note", payload)
    ELSE CmdNoteData(st, payload.obj, t)

\* _cmd_activity
CmdActivityData(st, data, t) ==
    IF ~Validated(Get(data, "program", ""))
    THEN [st EXCEPT !.resp = Err("activity", "missing program field")]
    ELSE AckRet(insert_activity(st, Get(data, "program", ""),
                                Get(data, "details", ""), Get(data, "file_path", ""),
                                Get(data, "project", ""), SessionLink(st),
                                Get(data, "duration_min", 0), t),
                "activity")

CmdActivity(st, payload, t) ==
    IF LoadFails(payload) THEN Fault(st, "activity", payload)
    ELSE CmdActivityData(st, payload.obj, t)

\* _cmd_search
CmdSearchData(st, data, t) ==
    IF ~Validated(Get(data, "query", ""))
    THEN [st EXCEPT !.resp = Err("search", "missing query field")]
    ELSE AckRet(insert_search(st, Get(data, "query", ""), Get(data, "source", ""),
                              Get(data, "url", ""), Get(data, "project", ""),
                              SessionLink(st), t),
                "search")

CmdSearch(st, payload, t) ==
    IF LoadFails(payload) THEN Fault(st, "search", payload)
    ELSE CmdSearchData(st, payload.obj, t)

\* self._active_session_id = session_id; return f"ACK:session:{session_id}"
SessionStarted(st) == [st EXCEPT !.cell = st.ret, !.resp = Ack("session", st.ret)]

\* _cmd_session_start; u is the uuid4 that start_session draws
CmdSessionStart(st, payload, t, u) ==
    IF LoadFails(payload) THEN Fault(st, "session_start", payload)
    ELSE SessionStarted(start_session(st, u, Get(payload.obj, "ai_platform", ""),
                                      Get(payload.obj, "hostname", ""),
                                      Get(payload.obj, "os_info", ""), t))

\* the cell is cleared whatever id was ended
ClearsCell_Always(st, session_id) == TRUE

\* if session_id == self._active_session_id
ClearsCell(st, session_id) == session_id = st.cell

\* the tail of _cmd_session_end, after end_session returned ok in st.ret
SessionEnded(st, session_id) ==
    [st EXCEPT !.cell = IF ClearsCell(st, session_id) THEN None ELSE @,
               !.resp = IF st.ret THEN Ack("session_end", session_id)
                        ELSE Err("session_end", "session not found or already ended")]

CmdSessionEndId(st, data, session_id, t) ==
    IF Falsy(session_id)
    THEN [st EXCEPT !.resp = Err("session_end", "no active session")]
    ELSE SessionEnded(end_session(st, session_id, Get(data, "summary", ""),
                                  Get(data, "projects", ""), t),
                      session_id)

\* _cmd_session_end
CmdSessionEnd(st, payload, t) ==
    IF LoadFails(payload) THEN Fault(st, "session_end", payload)
    ELSE CmdSessionEndId(st, payload.obj, Get(payload.obj, "session_id", st.cell), t)

\* _cmd_project_upsert
CmdProjectData(st, data, t) ==
    IF ~Validated(Get(data, "tag", ""))
    THEN [st EXCEPT !.resp = Err("project_upsert", "missing tag field")]
    ELSE AckRet(upsert_project(st, Get(data, "tag", ""), Get(data, "name", ""),
                               Get(data, "status", "active"),
                               Get(data, "priority", 3),
                               Get(data, "description", ""),
                               Get(data, "collaborators", ""), t),
                "project")

CmdProjectUpsert(st, payload, t) ==
    IF LoadFails(payload) THEN Fault(st, "project_upsert", payload)
    ELSE CmdProjectData(st, payload.obj, t)

\* _cmd_computer_reg
CmdComputerData(st, data, t) ==
    IF ~Validated(Get(data, "hostname", ""))
    THEN [st EXCEPT !.resp = Err("computer_reg", "missing hostname field")]
    ELSE AckRet(register_computer(st, Get(data, "hostname", ""), Get(data, "os", ""),
                                  Get(data, "cpu", ""), Get(data, "gpu", ""),
                                  Get(data, "ram_gb", 0), Get(data, "notes", ""), t),
                "computer")

CmdComputerReg(st, payload, t) ==
    IF LoadFails(payload) THEN Fault(st, "computer_reg", payload)
    ELSE CmdComputerData(st, payload.obj, t)

\* _cmd_people_upsert
CmdPeopleData(st, data, t) ==
    IF ~Validated(Get(data, "id", ""))
    THEN [st EXCEPT !.resp = Err("people_upsert", "missing id field")]
    ELSE AckRet(upsert_person(st, Get(data, "id", ""), Get(data, "name", ""),
                              Get(data, "role", ""), Get(data, "email", ""),
                              Get(data, "projects", ""), Get(data, "notes", ""), t),
                "people")

CmdPeopleUpsert(st, payload, t) ==
    IF LoadFails(payload) THEN Fault(st, "people_upsert", payload)
    ELSE CmdPeopleData(st, payload.obj, t)

(***************************************************************************)
(* _cmd_query                                                              *)
(***************************************************************************)
QUERY_DEFAULT_LIMIT == 20
QUERY_MAX_LIMIT == 100

\* a whitelist with one table more
QueryTables_WithFiles ==
    {"notes", "activities", "searches", "sessions", "projects", "computers", "people",
     "files"}

\* the table whitelist of _cmd_query
QueryTables ==
    {"notes", "activities", "searches", "sessions", "projects", "computers", "people"}

\* the columns of SCHEMA_SQL
Columns ==
    [notes |-> {"id", "content", "tags", "project", "note_type", "source",
                "session_id", "created_at"},
     activities |-> {"id", "program", "details", "file_path", "project",
                     "session_id", "duration_min", "created_at"},
     searches |-> {"id", "query", "source", "url", "project", "session_id",
                   "created_at"},
     sessions |-> {"id", "ai_platform", "hostname", "os_info", "started_at",
                   "ended_at", "summary", "projects"},
     projects |-> {"tag", "name", "status", "priority", "description",
                   "collaborators", "last_touched", "created_at"},
     computers |-> {"hostname", "os", "cpu", "gpu", "ram_gb", "first_seen",
                    "last_seen", "notes"},
     people |-> {"id", "name", "role", "email", "projects", "notes", "created_at"},
     files |-> {"id", "filename", "category", "description", "tags", "project",
                "mime_type", "size_bytes", "source", "session_id", "created_at"}]

\* str.isalnum() on the column and key names of the model.  The names of the
\* schema are ASCII letters and underscores: the ones with an underscore are
\* not alphanumeric.
UnderscoreNames ==
    {"note_type", "session_id", "created_at", "file_path", "duration_min",
     "ai_platform", "os_info", "started_at", "ended_at", "last_touched",
     "ram_gb", "first_seen", "last_seen", "mime_type", "size_bytes"}

\* the other names of the model with a character that is neither a letter,
\* a digit nor an underscore
PunctuatedNames == {"id;--", "id;", "i-d"}

\* a name of letters only, one of them outside ASCII: "caf" and U+00E9.
\* str.isalnum() is true of it.
AccentedNames == {"caf<U+00E9>"}

IsAlnum(name) == name \notin UnderscoreNames \cup PunctuatedNames

\* parts[0].replace("_", "").isalnum()
IsAlnumUnderscore(name) == name \notin PunctuatedNames

\* the keys of filters that become "col = ?" clauses: the others are skipped
ClauseCols(filters) == {col \in DOMAIN filters : IsAlnum(col)}

\* column = ? in SQL: never true of NULL
SqlEq(a, b) == a # None /\ b # None /\ a = b

\* a LIMIT that is one row short
LimitRows_OneShort(rows, limit) ==
    IF limit < 0 \/ limit > Len(rows) THEN rows ELSE SubSeq(rows, 1, limit - 1)

\* LIMIT ?: the first limit rows, all of them when limit is negative
LimitRows(rows, limit) ==
    IF limit < 0 \/ limit >= Len(rows) THEN rows ELSE SubSeq(rows, 1, limit)

\* order_by.split() of the order_by values of the model
OrderParts ==
    ("id" :> <<"id">>) @@ ("id asc" :> <<"id", "asc">>) @@ ("id DESC" :> <<"id", "DESC">>)
    @@ ("id SIDEWAYS" :> <<"id", "SIDEWAYS">>)
    @@ ("id; DROP TABLE notes" :> <<"id;", "DROP", "TABLE", "notes">>)
    @@ ("i-d" :> <<"i-d">>) @@ ("caf<U+00E9>" :> <<"caf<U+00E9>">>)
    @@ (" " :> <<>>)

\* str.upper() on the directions of the model
Upper(w) == IF w = "asc" THEN "ASC" ELSE IF w = "desc" THEN "DESC" ELSE w

\* direction = parts[1].upper() if len(parts) > 1 else "DESC"
OrderDirection(parts) == IF Len(parts) > 1 THEN Upper(parts[2]) ELSE "DESC"

\* the ORDER BY clause, <<column, direction>>, or none: the order_by that
\* fails a test is dropped without a word
OrderClause(parts) ==
    IF Len(parts) <= 2 /\ IsAlnumUnderscore(parts[1])
          /\ OrderDirection(parts) \in {"ASC", "DESC"}
    THEN <<parts[1], OrderDirection(parts)>>
    ELSE <<>>

\* the names interpolated into the statement
SqlNames(cols, order) == cols \cup (IF order = <<>> THEN {} ELSE {order[1]})

\* no statement was executed
NoSql == [run |-> FALSE, names |-> {}]

Reverse(rows) == [i \in 1..Len(rows) |-> rows[Len(rows) + 1 - i]]

\* ORDER BY: every table is kept in rowid order and the statements of the
\* model that reach the store order by id, which is the rowid
OrderRows(rows, order) ==
    IF order # <<>> /\ order[2] = "DESC" THEN Reverse(rows) ELSE rows

\* SELECT * FROM table WHERE c1 = ? AND ... ORDER BY ... LIMIT ?
SelectRows(rows, filters, cols, order, limit) ==
    LET Keep(r) == \A col \in cols : SqlEq(r[col], filters[col])
    IN  LimitRows(OrderRows(SelectSeq(rows, Keep), order), limit)

\* get_recent_notes: the WHERE clause; "if project:" and "if note_type:" leave
\* out a filter that is None or empty
NoteMatches(r, project, note_type) ==
    /\ Falsy(project) \/ SqlEq(r.project, project)
    /\ Falsy(note_type) \/ SqlEq(r.note_type, note_type)

Matching(rows, project, note_type) ==
    SelectSeq(rows, LAMBDA r : NoteMatches(r, project, note_type))

\* the arrangements of n rows
Arrangements(n) == {f \in [1..n -> 1..n] : \A i, j \in 1..n : f[i] = f[j] => i = j}

Arranged(rows, f) == [i \in 1..Len(rows) |-> rows[f[i]]]

\* created_at never rises along the rows
CreatedDesc(rows) == \A i \in 1..(Len(rows) - 1) : rows[i].created_at >= rows[i + 1].created_at

\* ORDER BY created_at DESC: SQL leaves the order of rows with equal
\* created_at to the query plan, so every such order is a result
OrderedByCreated(rows) ==
    {Arranged(rows, f) : f \in {g \in Arrangements(Len(rows)) : CreatedDesc(Arranged(rows, g))}}

\* CortexDB.get_recent_notes: the results the statement can give
get_recent_notes(d, limit, project, note_type) ==
    {LimitRows(rows, limit) : rows \in OrderedByCreated(Matching(d.notes, project, note_type))}

\* the statement is executed; a name in it that is no column of the table is
\* an sqlite3.OperationalError
QueryExec(st, table, filters, order, limit) ==
    IF SqlNames(ClauseCols(filters), order) \subseteq Columns[table]
    THEN [st EXCEPT !.resp = Rsp("query",
              SelectRows(st.db[table], filters, ClauseCols(filters), order, limit))]
    ELSE [st EXCEPT !.resp = Err("query", "no such column")]

\* the statement is built, then executed
QueryRun(st, table, filters, order, limit) ==
    QueryExec([st EXCEPT !.sql = [run |-> TRUE,
                                  names |-> SqlNames(ClauseCols(filters), order)]],
              table, filters, order, limit)

\* if order_by: parts = order_by.split(); parts[0] is an IndexError on a
\* blank order_by
QueryOrdered(st, table, filters, order_by, limit) ==
    IF order_by = "" THEN QueryRun(st, table, filters, <<>>, limit)
    ELSE IF OrderParts[order_by] = <<>>
    THEN [st EXCEPT !.resp = Err("query", "list index out of range")]
    ELSE QueryRun(st, table, filters, OrderClause(OrderParts[order_by]), limit)

CmdQueryData(st, data) ==
    IF Get(data, "table", "") \notin QueryTables
    THEN [st EXCEPT !.resp = Err("query", "invalid or missing table")]
    ELSE QueryOrdered(st, Get(data, "table", ""), Get(data, "filters", EmptyObj),
                      Get(data, "order_by", ""),
                      Min(Get(data, "limit", QUERY_DEFAULT_LIMIT), QUERY_MAX_LIMIT))

\* _cmd_query
CmdQuery(st, payload) ==
    IF LoadFails(payload) THEN Fault(st, "query", payload)
    ELSE CmdQueryData(st, payload.obj)

(***************************************************************************)
(* _dispatch: the handler table, the unknown-command answer and the        *)
(* except clause.  t is the store's clock, u the uuid4 a session_start     *)
(* would draw.                                                             *)
(***************************************************************************)
Dispatch(st, cmd, payload, t, u) ==
    CASE cmd = "ping" -> [st EXCEPT !.resp = Rsp("pong", "")]
      [] cmd = "note" -> CmdNote(st, payload, t)
      [] cmd = "activity" -> CmdActivity(st, payload, t)
      [] cmd = "search" -> CmdSearch(st, payload, t)
      [] cmd = "session_start" -> CmdSessionStart(st, payload, t, u)
      [] cmd = "session_end" -> CmdSessionEnd(st, payload, t)
      [] cmd = "project_upsert" -> CmdProjectUpsert(st, payload, t)
      [] cmd = "computer_reg" -> CmdComputerReg(st, payload, t)
      [] cmd = "people_upsert" -> CmdPeopleUpsert(st, payload, t)
      [] cmd = "query" -> CmdQuery(st, payload)
      [] OTHER -> [st EXCEPT !.resp = Err(cmd, "unknown command")]

(***************************************************************************)
(* handle_message on the text of a message.  The command name and the      *)
(* payload are cut out of the code points as the code cuts them; the name  *)
(* and the JSON text are then read through the spellings below, which list *)
(* the names and payload texts that occur in the messages of the model.    *)
(***************************************************************************)
StrCMD == <<67, 77, 68, 58>>

\* str.lower() on ASCII
Lower(s) == [i \in 1..Len(s) |-> IF s[i] >= 65 /\ s[i] <= 90 THEN s[i] + 32 ELSE s[i]]

\* the command names of the messages: ping, note, nope, the empty name
Spelling ==
    [ping |-> <<112, 105, 110, 103>>, note |-> <<110, 111, 116, 101>>,
     nope |-> <<110, 111, 112, 101>>, x480 |-> [i \in 1..480 |-> 120]] @@ ("" :> <<>>)

\* the str a sequence of code points is
CmdName(text) ==
    IF \E n \in DOMAIN Spelling : Spelling[n] = text
    THEN CHOOSE n \in DOMAIN Spelling : Spelling[n] = text
    ELSE "<other>"

\* json.loads on the payload texts of the messages:
\*   {"content":"hi"}   {"content": "hi"}   {}   and, no JSON, "{" and "xx"
JsonTexts ==
    (<<123, 34, 99, 111, 110, 116, 101, 110, 116, 34, 58, 34, 104, 105, 34, 125>>
        :> PObj([content |-> "hi"]))
    @@ (<<123, 34, 99, 111, 110, 116, 101, 110, 116, 34, 58, 32, 34, 104, 105, 34, 125>>
        :> PObj([content |-> "hi"]))
    @@ (<<123, 125>> :> PObj(EmptyObj))
    @@ (<<>> :> PEmpty)

LoadsText(payload) == IF payload \in DOMAIN JsonTexts THEN JsonTexts[payload] ELSE PBad

\* what handle_message leaves: the dispatcher's state, the assembler, and
\* whether an exception left the call
HmNone(st, a) == [st |-> [st EXCEPT !.resp = NoResp], asm |-> a, raised |-> FALSE]

HmRaised(st, a) == [st |-> [st EXCEPT !.resp = NoResp], asm |-> a, raised |-> TRUE]

\* cmd = <name>.strip().lower(); return self._dispatch(cmd, payload, context)
HmDispatch(st, a, name, payload, t, u) ==
    [st |-> Dispatch(st, CmdName(Lower(StripSpaces(name))), LoadsText(payload), t, u),
     asm |-> a, raised |-> FALSE]

\* colon_idx = rest.find(":")
HmSplit(st, a, rest, colon_idx, t, u) ==
    IF colon_idx = -1 THEN HmDispatch(st, a, rest, <<>>, t, u)
    ELSE HmDispatch(st, a, Take(rest, colon_idx), Drop(rest, colon_idx + 1), t, u)

\* if not raw_msg.startswith("CMD:"): return None; rest = raw_msg[4:]
HmCommand(st, a, raw_msg, t, u) ==
    IF StartsWith(raw_msg, StrCMD)
    THEN HmSplit(st, a, Drop(raw_msg, 4), IndexOf(Drop(raw_msg, 4), ChColon), t, u)
    ELSE HmNone(st, a)

\* assembled = self._assembler.feed(raw_msg): no except clause around it
HmAssembled(st, f, t, u) ==
    IF f.out = RaisedStr THEN HmRaised(st, f.asm)
    ELSE IF f.out = NoneStr THEN HmNone(st, f.asm)
    ELSE HmCommand(st, f.asm, f.out, t, u)

\* CortexProtocol.handle_message
HandleMessage(st, a, raw_msg, now, t, u) ==
    IF StartsWith(raw_msg, StrCHUNK) THEN HmAssembled(st, Feed(a, raw_msg, now), t, u)
    ELSE HmCommand(st, a, raw_msg, t, u)

(***************************************************************************)
(* http_server.py: the request handler.  A request is a record of its       *)
(* method, the segments of its path (the text between the slashes, the     *)
(* query cut off), its Authorization header as scheme and token, and what  *)
(* a POST carries: the JSON body of /api/cmd, the X-Filename header and    *)
(* the Content-Length, and the bytes of the body that reach the server     *)
(* before the client closes.  h = [st, fs, status, out] is the             *)
(* dispatcher's state, the directories, the status answered and what the   *)
(* response carries: its Content-Length and body when a file is streamed,  *)
(* the names of a listing, the size an upload reports.                     *)
(***************************************************************************)
MAX_UPLOAD == 104857600

MAX_CMD_BODY == 1048576

\* self.server.token
ServerToken == "secrettoken"

\* no response is sent: an exception left the handler and the connection is closed
NoStatus == 0

\* the keys of _FILE_DIRS
FileDirs == {"recordings", "notes", "logs", "uploads"}

\* deletion allowed everywhere
DeleteAllowed_Everywhere == {"recordings", "notes", "logs", "uploads"}

\* the categories _handle_delete deletes from
DeleteAllowed == {"recordings", "uploads"}

\* tokens with a character outside ASCII: "caf" and U+00E9
NonAsciiTokens == {"caf<U+00E9>"}

\* _check_auth: secrets.compare_digest raises TypeError on a str with a
\* character outside ASCII
CheckAuth(auth) ==
    IF auth.scheme # "Bearer " THEN "denied"
    ELSE IF auth.token \in NonAsciiTokens THEN "raised"
    ELSE IF auth.token = ServerToken THEN "ok"
    ELSE "denied"

Reply(h, status) == [h EXCEPT !.status = status]

\* no Content-Length of a streamed file, no size reported
NoSize == -1000

\* a response that streams no file, lists nothing and reports no size
NoOut == [length |-> NoSize, body |-> NoneStr, files |-> {}, size |-> NoSize]

\* the files of a directory without one name
Without(dir, name) == [n \in DOMAIN dir \ {name} |-> dir[n]]

\* the files of a directory after open(dest, "wb") and the writes
Written(dir, name, data) ==
    [n \in DOMAIN dir \cup {name} |-> IF n = name THEN data ELSE dir[n]]

\* if not self._check_auth(): self._error(401, "Unauthorized")
AuthFailed(h, auth) ==
    IF CheckAuth(auth) = "raised" THEN Reply(h, NoStatus) ELSE Reply(h, 401)

RECURSIVE RStrip(_)
\* path.rstrip("/"): the empty segments at the end are dropped
RStrip(segs) ==
    IF segs # <<>> /\ segs[Len(segs)] = "" THEN RStrip(SubSeq(segs, 1, Len(segs) - 1))
    ELSE segs

\* path.startswith("/files/")
IsFilesPath(path) == Len(path) >= 2 /\ path[1] = "files"

\* os.path.basename on the names of the model
Basename(name) == IF name = "../notes/n.txt" THEN "n.txt" ELSE name

\* the names _safe_filename refuses: empty, beginning with ".", holding ".."
UnsafeNames == {"", "..", ".hidden"}

\* _safe_filename: the base name, or "" for None
SafeFilename(name) == IF Basename(name) \in UnsafeNames THEN "" ELSE Basename(name)

\* _list_files: the names of os.listdir
ListFiles(h, category) ==
    IF category \notin FileDirs THEN Reply(h, 404)
    ELSE [h EXCEPT !.status = 200, !.out.files = DOMAIN h.fs[category]]

\* Content-Length: os.path.getsize(filepath), then the file in chunks
Stream(h, data) == [h EXCEPT !.status = 200, !.out.length = Len(data), !.out.body = data]

\* _download_file
DownloadFile(h, category, filename) ==
    IF category \notin FileDirs THEN Reply(h, 404)
    ELSE IF SafeFilename(filename) = "" THEN Reply(h, 400)
    ELSE IF SafeFilename(filename) \notin DOMAIN h.fs[category] THEN Reply(h, 404)
    ELSE Stream(h, h.fs[category][SafeFilename(filename)])

\* _route_files_get: parts = path.split("/")
RouteFilesGet(h, path) ==
    IF Len(path) = 2 THEN ListFiles(h, path[2])
    ELSE IF Len(path) = 3 THEN DownloadFile(h, path[2], path[3])
    ELSE Reply(h, 404)

\* do_GET after the auth check; _serve_db copies the store's file, streams
\* the copy and unlinks it
DoGetRouted(h, path) ==
    IF path = <<"files", "db">> THEN Reply(h, 200)
    ELSE IF IsFilesPath(path) THEN RouteFilesGet(h, path)
    ELSE Reply(h, 404)

\* do_GET
DoGet(h, req) ==
    IF RStrip(req.segs) = <<"health">> THEN Reply(h, 200)
    ELSE IF CheckAuth(req.auth) # "ok" THEN AuthFailed(h, req.auth)
    ELSE DoGetRouted(h, RStrip(req.segs))

\* _handle_cmd after json.loads: body.get raises AttributeError, which
\* nothing catches, when the body is JSON but no object; the command goes to
\* handle_message as CMD:<command>:<payload>
HandleCmdBody(h, json, t, u) ==
    IF json.kind = "nonobj" THEN Reply(h, NoStatus)
    ELSE IF json.command = "" THEN Reply(h, 400)
    ELSE [h EXCEPT !.st = Dispatch(h.st, json.command, json.payload, t, u),
                   !.status = 200]

\* _handle_cmd
HandleCmd(h, json, length, t, u) ==
    IF length > MAX_CMD_BODY THEN Reply(h, 413)
    ELSE IF json.kind = "bad" THEN Reply(h, 400)
    ELSE HandleCmdBody(h, json, t, u)

\* the loop of _handle_upload: rfile.read until length bytes are read or the
\* client has closed; nothing is read when length is negative
ReadBody(body, length) == Take(body, length)

\* the file is written under its base name; "size": length
UploadStored(h, name, data, length) ==
    [h EXCEPT !.fs.uploads = Written(@, name, data), !.status = 200, !.out.size = length]

\* _handle_upload
HandleUpload(h, filename, length, body) ==
    IF filename = "" THEN Reply(h, 400)
    ELSE IF SafeFilename(filename) = "" THEN Reply(h, 400)
    ELSE IF length > MAX_UPLOAD THEN Reply(h, 413)
    ELSE IF length = 0 THEN Reply(h, 400)
    ELSE UploadStored(h, SafeFilename(filename), ReadBody(body, length), length)

DoPostRouted(h, path, req, t, u) ==
    IF path = <<"api", "cmd">> THEN HandleCmd(h, req.json, req.length, t, u)
    ELSE IF path = <<"files", "uploads">>
         THEN HandleUpload(h, req.filename, req.length, req.body)
    ELSE Reply(h, 404)

\* do_POST
DoPost(h, req, t, u) ==
    IF CheckAuth(req.auth) # "ok" THEN AuthFailed(h, req.auth)
    ELSE DoPostRouted(h, RStrip(req.segs), req, t, u)

\* os.unlink(filepath)
Unlink(h, category, name) == [h EXCEPT !.fs[category] = Without(@, name), !.status = 200]

\* _handle_delete from the category test on
DeleteFile(h, category, filename) ==
    IF category \notin DeleteAllowed THEN Reply(h, 403)
    ELSE IF category \notin FileDirs THEN Reply(h, 404)
    ELSE IF SafeFilename(filename) = "" THEN Reply(h, 400)
    ELSE IF SafeFilename(filename) \notin DOMAIN h.fs[category] THEN Reply(h, 404)
    ELSE Unlink(h, category, SafeFilename(filename))

\* _handle_delete
HandleDelete(h, path) ==
    IF Len(path) # 3 THEN Reply(h, 404) ELSE DeleteFile(h, path[2], path[3])

\* do_DELETE
DoDelete(h, req) ==
    IF CheckAuth(req.auth) # "ok" THEN AuthFailed(h, req.auth)
    ELSE IF IsFilesPath(RStrip(req.segs)) THEN HandleDelete(h, RStrip(req.segs))
    ELSE Reply(h, 404)

(***************************************************************************)
(* http_server.py, _serve_db, step by step.  The store is in WAL mode      *)
(* (PRAGMA journal_mode=WAL): a commit appends to the -wal sibling and the *)
(* main file changes only at a checkpoint.  s = [main, side, commits, th,  *)
(* nreq]: the image of the store in the main file, the sidecar copies      *)
(* <path>.download and <path>.download-wal that all requests share, the    *)
(* committed states so far, every request's position with what it has      *)
(* announced and streamed, and the number of requests begun.  A file is    *)
(* copied in one step.                                                     *)
(***************************************************************************)
\* a file that does not exist
Absent == [absent |-> TRUE]

\* the main file before the first checkpoint: the header page, no table yet
HeaderOnly == [tables |-> {}]

\* os.path.getsize of a database file, in pages
FileSize(img) == IF img = HeaderOnly THEN 1 ELSE 2 + Len(img.notes)

SideNone == [main |-> Absent, wal |-> Absent]

ReqIdle ==
    [pc |-> "idle", began |-> Absent, status |-> NoStatus, length |-> NoSize,
     body |-> Absent]

\* the threads of ThreadingHTTPServer serving GET /files/db
SnapThreads == {"h1", "h2"}

\* shutil.copy2(CORTEX_DB_PATH, tmp_path); committed is the store as
\* committed when the request starts
ServeDbCopy(s, t, committed) ==
    [s EXCEPT !.side.main = s.main,
              !.nreq = @ + 1,
              !.th[t] = [ReqIdle EXCEPT !.pc = "copied", !.began = committed]]

\* if os.path.exists(wal): shutil.copy2(wal, tmp_path + "-wal")
ServeDbCopyWal(s, t, committed) ==
    [s EXCEPT !.side.wal = committed, !.th[t].pc = "walcopied"]

\* file_size = os.path.getsize(tmp_path), which raises when another request
\* has unlinked the sidecar; send_response(200) and the headers
ServeDbHeaders(s, t) ==
    IF s.side.main = Absent THEN [s EXCEPT !.th[t].pc = "raised"]
    ELSE [s EXCEPT !.th[t].pc = "headers", !.th[t].status = 200,
                   !.th[t].length = FileSize(s.side.main)]

\* open(tmp_path, "rb"), which raises when the sidecar is gone, and the
\* chunks written to the client
ServeDbStream(s, t) ==
    IF s.side.main = Absent THEN [s EXCEPT !.th[t].pc = "raised"]
    ELSE [s EXCEPT !.th[t].pc = "streamed", !.th[t].body = s.side.main]

\* finally: os.unlink of the sidecar and its siblings, OSError ignored
ServeDbUnlink(s, t) == [s EXCEPT !.side = SideNone, !.th[t].pc = "done"]

\* self._conn.commit() as the files see it: the frames are in the WAL, and
\* they reach the main file when this commit runs a checkpoint
\* (wal_autocheckpoint, once the WAL holds 1000 pages)
WalCommit(s, committed, checkpoint) ==
    [s EXCEPT !.commits = @ \cup {committed},
              !.main = IF checkpoint THEN committed ELSE @]

(***************************************************************************)
(* ble_client.py: the BLEClient.  b holds the object's fields (running,    *)
(* connected, address, device_name, mtu_size, rssi, rx_buffer, the inbound *)
(* and outbound queues), the position pc of the worker in _run_loop and    *)
(* _connect_and_run, and a record of what has happened since the last      *)
(* scan began: drop (what went wrong), hooked (on_disconnect was called),  *)
(* slept (the seconds of the last sleep).  The integer fields hold 0 for   *)
(* None.  On the connection, pending are the bytes the peer has written    *)
(* that are still on their way, nlines the number of lines it has written, *)
(* sent the bytes notified so far, polled the messages poll_messages has   *)
(* returned.                                                               *)
(***************************************************************************)
BLE_RECONNECT_INTERVAL_S == 5

BLE_MAX_MESSAGE_LEN == 512

NoMtu == 0

NoRssi == 0

\* the peripheral found by the scan
Device == [address |-> "AA:BB:CC:DD:EE:FF", name |-> "KeyMaster", rssi |-> -60]

\* _build_discovery_payload() returned None: no line, given as no length
NoDiscover == 0

\* BLEClient.__init__; last_hook is the hook called last, wire the writes to
\* the peripheral on this connection, warned whether a failed write was
\* logged on it
BleIdle ==
    [running |-> FALSE, pc |-> "init", connected |-> FALSE, address |-> None,
     device_name |-> None, mtu_size |-> NoMtu, rssi |-> NoRssi, rx_buffer |-> <<>>,
     inbound |-> <<>>, outbound |-> <<>>, drop |-> "none", hooked |-> FALSE, slept |-> 0,
     sent |-> <<>>, polled |-> <<>>, pending |-> <<>>, nlines |-> 0,
     last_hook |-> "none", wire |-> <<>>, discover |-> NoDiscover, nout |-> 0,
     warned |-> FALSE]

\* while self._running: the next round of _run_loop, or its end
LoopTop(b) == IF b.running THEN [b EXCEPT !.pc = "scan"] ELSE [b EXCEPT !.pc = "stopped"]

\* start(): the thread is launched and enters _run_loop
BleStarted(b) == IF b.running THEN b ELSE LoopTop([b EXCEPT !.running = TRUE])

\* stop()
BleStopped(b) == [b EXCEPT !.running = FALSE]

\* send(message): the message, given by its length, is cut to the ceiling
\* and enqueued
BleSent(b, n) == [b EXCEPT !.outbound = Append(@, Min(n, BLE_MAX_MESSAGE_LEN))]

\* self._connected = False and the metadata cleared
StatusReset(b) ==
    [b EXCEPT !.connected = FALSE, !.address = None, !.device_name = None,
              !.mtu_size = NoMtu, !.rssi = NoRssi]

\* device = await self._scan(): result is what BleakScanner.discover did
\* (found the device, found none, raised); with no device the loop sleeps
\* and goes on with the next round
Scanned(b, result) ==
    IF b.running /\ result = "found"
    THEN [b EXCEPT !.pc = "connect", !.drop = "none", !.hooked = FALSE]
    ELSE [b EXCEPT !.pc = "scan_sleep", !.drop = "scan", !.hooked = FALSE]

\* if device is None: await asyncio.sleep(BLE_RECONNECT_INTERVAL_S); continue
ScanSlept(b) == LoopTop([b EXCEPT !.slept = BLE_RECONNECT_INTERVAL_S])

\* the except clause of _run_loop
Excepted(b, what) == [StatusReset(b) EXCEPT !.pc = "after", !.drop = what]

\* _connect_and_run up to on_connect: the rx buffer is emptied; BleakClient
\* raises, or is not connected, or the status is set
Connected(b, result) ==
    IF result = "raised" THEN Excepted([b EXCEPT !.rx_buffer = <<>>], "connect")
    ELSE IF result = "unconnected"
         THEN [b EXCEPT !.rx_buffer = <<>>, !.pc = "after", !.drop = "connect"]
    ELSE [b EXCEPT !.rx_buffer = <<>>, !.pc = "subscribe", !.connected = TRUE,
                   !.address = Device.address, !.device_name = Device.name,
                   !.rssi = Device.rssi, !.sent = <<>>, !.polled = <<>>,
                   !.last_hook = "connect", !.wire = <<>>, !.discover = NoDiscover,
                   !.warned = FALSE]

\* the MTU is acquired (mtu, NoMtu when that failed), start_notify and the
\* discovery message; start_notify may raise
Subscribed(b, mtu, result) ==
    IF result = "raised" THEN Excepted(b, "exception")
    ELSE [b EXCEPT !.mtu_size = mtu, !.pc = "serve"]

\* the finally clause of _connect_and_run, then the return to _run_loop
Finally(b, what) == [StatusReset(b) EXCEPT !.pc = "after", !.drop = what]

\* one round of the communication loop: the outbound queue is written to
\* the peer; the link is lost, an exception is raised, or the loop ends
\* because stop() was called
Served100ms(b, result) ==
    IF ~b.running THEN Finally(b, b.drop)
    ELSE IF result = "lost" THEN Finally(b, "link")
    ELSE IF result = "raised" THEN Finally(b, "exception")
    ELSE [b EXCEPT !.outbound = <<>>]

\* client.mtu_size of bleak: 23 until the negotiated MTU has been acquired
DEFAULT_MTU == 23

ATT_HEADER == 3

MIN_PAYLOAD == 20

ClientMtu(b) == IF b.mtu_size = NoMtu THEN DEFAULT_MTU ELSE b.mtu_size

\* mtu_payload = max(client.mtu_size - 3, 20)
MtuPayload(b) ==
    IF ClientMtu(b) - ATT_HEADER > MIN_PAYLOAD THEN ClientMtu(b) - ATT_HEADER ELSE MIN_PAYLOAD

\* slices that carry all the bytes in one write
GattSlices_Whole(n, p) == <<n>>

\* for i in range(0, len(data), mtu_payload): chunk = data[i:i + mtu_payload];
\* the sizes of the chunks of n bytes
GattSlices(n, p) == [i \in 1..((n + p - 1) \div p) |-> Min(p, n - (i - 1) * p)]

\* a write of size bytes of the discovery line (len the length of the line)
\* or of the queued message of len characters
GattWrite(discover, len, size) == [discover |-> discover, len |-> len, size |-> size]

\* data = (msg + "\n").encode("utf-8"), ASCII text of len characters: the
\* first k of its slices are written with write_gatt_char
GattWrites(b, discover, len, k) ==
    [b EXCEPT !.wire =
        @ \o [i \in 1..Min(k, Len(GattSlices(len + 1, MtuPayload(b)))) |->
                 GattWrite(discover, len, GattSlices(len + 1, MtuPayload(b))[i])]]

\* a write raised after k slices: log.warning
WriteFailed(b, len, k) == k < Len(GattSlices(len + 1, MtuPayload(b)))

\* _send_discovery: nothing when no line could be built; the line and its
\* newline are written, up to the write that raises if one does
SendDiscovery(b, len, k) ==
    IF len = NoDiscover THEN b
    ELSE GattWrites([b EXCEPT !.discover = len, !.warned = WriteFailed(b, len, k)],
                    TRUE, len, k)

\* _connect_and_run from the MTU to the communication loop: start_notify,
\* then the discovery line
Provisioned(b, mtu, result, len, k) ==
    IF result = "raised" THEN Subscribed(b, mtu, result)
    ELSE SendDiscovery(Subscribed(b, mtu, result), len, k)

RECURSIVE WriteAll(_)
\* while not self._outbound.empty(): each message is taken and written
WriteAll(b) ==
    IF b.outbound = <<>> THEN b
    ELSE WriteAll(GattWrites([b EXCEPT !.outbound = Tail(@)], FALSE, Head(b.outbound),
                             Len(GattSlices(Head(b.outbound) + 1, MtuPayload(b)))))

\* a write of the first message raises after k slices: the message is gone,
\* the warning logged and the inner loop left
WriteBroken(b, k) ==
    GattWrites([b EXCEPT !.outbound = Tail(@), !.warned = TRUE], FALSE, Head(b.outbound), k)

\* one round of the communication loop with its writes
CommunicationLoop(b, result, k) ==
    IF ~b.running \/ result \in {"lost", "raised"} THEN Served100ms(b, result)
    ELSE IF result = "senderr" /\ b.outbound # <<>>
              /\ WriteFailed(b, Head(b.outbound), k)
         THEN WriteBroken(b, k)
    ELSE WriteAll(b)

\* if self._running: on_disconnect_cb(), then the sleep begins
AfterRound(b) ==
    IF b.running THEN [b EXCEPT !.pc = "sleep", !.hooked = TRUE, !.last_hook = "disconnect"]
    ELSE LoopTop(b)

\* await asyncio.sleep(BLE_RECONNECT_INTERVAL_S) at the end of the round
RoundSlept(b) == LoopTop([b EXCEPT !.slept = BLE_RECONNECT_INTERVAL_S])

ChNewline == 10

\* the characters str.strip() removes, of the Basic Multilingual Plane
PyWhitespace ==
    (9..13) \cup (28..32) \cup {133, 160, 5760, 8232, 8233, 8239, 8287, 12288}
        \cup (8192..8202)

RECURSIVE Strip(_)
\* str.strip()
Strip(s) ==
    IF s = <<>> THEN s
    ELSE IF s[1] \in PyWhitespace THEN Strip(Tail(s))
    ELSE IF s[Len(s)] \in PyWhitespace THEN Strip(SubSeq(s, 1, Len(s) - 1))
    ELSE s

\* bytes.decode("utf-8"): the text of bytes that are ASCII is the bytes
DecodeStrict(bytes) ==
    IF IsAscii(bytes) THEN bytes
    ELSE Take(bytes, Len(bytes) - Len(NonAsciiTail(bytes))) \o Utf8Decode(NonAsciiTail(bytes))

\* decode raises UnicodeDecodeError: decoding with replacement characters
\* and encoding again gives other bytes
DecodeRaises(bytes) ==
    ~IsAscii(bytes) /\ Utf8Encode(Utf8Decode(NonAsciiTail(bytes))) # NonAsciiTail(bytes)

\* self._inbound.put(message) if message
PutMessage(b, message) == IF message = <<>> THEN b ELSE [b EXCEPT !.inbound = Append(@, message)]

\* message = line.decode("utf-8").strip(), put unless empty; a line that is
\* not UTF-8 is dropped
PutLine(b, line) == IF DecodeRaises(line) THEN b ELSE PutMessage(b, Strip(DecodeStrict(line)))

RECURSIVE NotifyLines(_)
\* while b"\n" in self._rx_buffer: line, rest = split(b"\n", 1)
NotifyLines(b) ==
    IF IndexOf(b.rx_buffer, ChNewline) < 0 THEN b
    ELSE NotifyLines(PutLine([b EXCEPT !.rx_buffer = Drop(@, IndexOf(@, ChNewline) + 1)],
                             Take(b.rx_buffer, IndexOf(b.rx_buffer, ChNewline))))

\* the buffer is flushed when it has reached the ceiling
NotifyFlush_AtCeiling(b) ==
    IF Len(b.rx_buffer) >= BLE_MAX_MESSAGE_LEN
    THEN [PutLine(b, b.rx_buffer) EXCEPT !.rx_buffer = <<>>]
    ELSE b

\* if len(self._rx_buffer) > BLE_MAX_MESSAGE_LEN: the buffer is put as one
\* message and emptied
NotifyFlush(b) ==
    IF Len(b.rx_buffer) > BLE_MAX_MESSAGE_LEN
    THEN [PutLine(b, b.rx_buffer) EXCEPT !.rx_buffer = <<>>]
    ELSE b

\* _on_notify
OnNotify(b, data) == NotifyFlush(NotifyLines([b EXCEPT !.rx_buffer = @ \o data]))

\* poll_messages: the inbound queue is drained and returned
PollMessages(b) == [b EXCEPT !.inbound = <<>>, !.polled = @ \o b.inbound]

(***************************************************************************)
(* main.py: the device's state machine.  m = [d, st, fs, ble, asm] is what *)
(* the closures of main() work on: the device record d (app_state,         *)
(* note_text, the recorder's process and state, the speech engine, what    *)
(* the last BLE message was answered), the dispatcher's state, the         *)
(* directories, the BLE client and the assembler.  A text the speech       *)
(* engine returns is the sequence of its words.                            *)
(***************************************************************************)
AppStates == {"STT_IDLE", "STT_LISTENING", "NOTE_TAKING", "RECORDING", "PAUSED"}

\* recorder = Recorder(); stt = STTEngine(); app_state = "STT_IDLE"; note_text = ""
DevIdle ==
    [app_state |-> "STT_IDLE", note_text |-> <<>>, proc |-> "none",
     rec_state |-> "IDLE", listening |-> FALSE, sent |-> <<>>, got |-> <<>>,
     was |-> None, nmsg |-> 0, nev |-> 0, in_session |-> FALSE, segment_count |-> 0,
     batch |-> <<>>, ble_errors |-> 0, tick |-> "loop"]

\* Recorder.start: arecord is launched; a session begins unless one is on
\* (in_session: session_start is not None)
RecorderStart(m) ==
    [m EXCEPT !.d.proc = "running", !.d.rec_state = "RECORDING", !.d.in_session = TRUE,
              !.d.segment_count = IF m.d.in_session THEN @ + 1 ELSE 1]

\* Recorder.reset_session
ResetSession(m) == [m EXCEPT !.d.in_session = FALSE, !.d.segment_count = 0]

\* Recorder.stop: arecord is interrupted and waited for
RecorderStop(m) == [m EXCEPT !.d.proc = "none", !.d.rec_state = "IDLE"]

\* Recorder.is_alive
IsAlive(d) == d.proc = "running"

\* STTEngine.start_listening, stop_listening
StartListening(m) == [m EXCEPT !.d.listening = TRUE]

StopListening(m) == [m EXCEPT !.d.listening = FALSE]

\* the UTF-8 bytes of the words the speech engine and the peer use
WordBytes == [hi |-> <<104, 105>>, note |-> <<110, 111, 116, 101>>, record |-> <<114, 101, 99, 111, 114, 100>>]

RECURSIVE TextStr(_)
\* the str of a text: its words, a space between them
TextStr(text) ==
    IF text = <<>> THEN ""
    ELSE IF Len(text) = 1 THEN text[1]
    ELSE text[1] \o " " \o TextStr(Tail(text))

RECURSIVE TextBytes(_)
\* str.encode("utf-8") of a text
TextBytes(text) ==
    IF text = <<>> THEN <<>>
    ELSE IF Len(text) = 1 THEN WordBytes[text[1]]
    ELSE WordBytes[text[1]] \o <<32>> \o TextBytes(Tail(text))

\* datetime.now().strftime("%Y%m%d_%H%M%S") + ".txt", t seconds after the
\* start of the model's clock
StampName(t) == "19700101_00000" \o ToString(t) \o ".txt"

\* _save_note: the file of the note
NoteFiled(m, text, t) ==
    [m EXCEPT !.fs.notes = Written(@, StampName(t), TextBytes(text) \o <<ChNewline>>)]

\* try: cortex_db.insert_note(...) except Exception: pass
Swallowed(st, r) == IF r.exc # None THEN st ELSE r

\* _save_note: the row of the note
NoteInserted(m, text, t) ==
    [m EXCEPT !.st = Swallowed(m.st, insert_note(m.st, TextStr(text), "", "", "voice",
                                                 "voice", m.st.cell, t))]

\* _save_note
SaveNote(m, text, t) == IF text = <<>> THEN m ELSE NoteInserted(NoteFiled(m, text, t), text, t)

\* f"{note_text} {final}".strip() if note_text else final
Accumulated(note_text, final) == note_text \o final

\* on_short_press in NOTE_TAKING: the note is saved, back to STT_IDLE
NoteClosed(m, remaining, t) ==
    [SaveNote(StopListening(m), Accumulated(m.d.note_text, remaining), t)
        EXCEPT !.d.note_text = <<>>, !.d.app_state = "STT_IDLE"]

\* on_short_press; remaining is what stt.get_all_finals() returns
OnShortPress(m, remaining, t) ==
    CASE m.d.app_state = "STT_IDLE" -> [StartListening(m) EXCEPT !.d.app_state = "STT_LISTENING"]
      [] m.d.app_state = "STT_LISTENING" -> [StopListening(m) EXCEPT !.d.app_state = "STT_IDLE"]
      [] m.d.app_state = "NOTE_TAKING" -> NoteClosed(m, remaining, t)
      [] m.d.app_state = "RECORDING" -> [RecorderStop(m) EXCEPT !.d.app_state = "PAUSED"]
      [] m.d.app_state = "PAUSED" -> [RecorderStart(m) EXCEPT !.d.app_state = "RECORDING"]
      [] OTHER -> m

\* on_long_press
OnLongPress(m) ==
    IF m.d.app_state \in {"RECORDING", "PAUSED"}
    THEN [ResetSession(RecorderStop(m)) EXCEPT !.d.app_state = "STT_IDLE"]
    ELSE m

\* "note" in lower, "record" in lower, for the words of the model
Says(final, word) == \E i \in 1..Len(final) : final[i] = word

\* the main loop in STT_LISTENING when stt.get_final() returns a text
Heard(m, final) ==
    IF Says(final, "note") THEN [m EXCEPT !.d.note_text = <<>>, !.d.app_state = "NOTE_TAKING"]
    ELSE IF Says(final, "record")
    THEN [RecorderStart(StopListening(m)) EXCEPT !.d.app_state = "RECORDING"]
    ELSE m

\* the main loop in STT_LISTENING after STT_LISTEN_TIMEOUT_S of silence
ListenTimeout(m) == [StopListening(m) EXCEPT !.d.app_state = "STT_IDLE"]

\* the main loop in NOTE_TAKING when stt.get_all_finals() returns a text
NoteHeard(m, final) == [m EXCEPT !.d.note_text = Accumulated(@, final)]

\* the main loop in NOTE_TAKING after STT_NOTE_SILENCE_S of silence
NoteSilence(m, partial, t) == NoteClosed(m, partial, t)

\* the main loop in RECORDING: the watchdog restarts arecord
Watchdog(m) == IF IsAlive(m.d) THEN m ELSE RecorderStart(m)

\* the watchdog finds arecord gone: led.set_state("error"); time.sleep(0.5)
WatchdogNoticed(m) == [m EXCEPT !.d.tick = "sleeping"]

\* after the sleep: recorder.start(); recorder.check_new_segment()
WatchdogRestarted(m) == [RecorderStart(m) EXCEPT !.d.tick = "loop"]

StrStartRecording == <<115, 116, 97, 114, 116, 95, 114, 101, 99, 111, 114, 100, 105, 110, 103>>

StrStopRecording == <<115, 116, 111, 112, 95, 114, 101, 99, 111, 114, 100, 105, 110, 103>>

StrAckStart == <<65, 67, 75, 58>> \o StrStartRecording

StrAckStop == <<65, 67, 75, 58>> \o StrStopRecording

\* "ERR:start_recording:already recording"
StrErrStart ==
    <<69, 82, 82, 58>> \o StrStartRecording
        \o <<58, 97, 108, 114, 101, 97, 100, 121, 32, 114, 101, 99, 111, 114, 100, 105, 110, 103>>

\* "ERR:stop_recording:not recording"
StrErrStop ==
    <<69, 82, 82, 58>> \o StrStopRecording
        \o <<58, 110, 111, 116, 32, 114, 101, 99, 111, 114, 100, 105, 110, 103>>

\* ble.send(text), and the text kept as what the message was answered
DevSent(m, text) ==
    [m EXCEPT !.ble = BleSent(@, Len(text)), !.d.sent = Append(@, text)]

\* _handle_local_command, cmd == "start_recording"
LocalStart(m, remaining, t) ==
    IF m.d.app_state = "RECORDING" THEN DevSent(m, StrErrStart)
    ELSE DevSent(OnShortPress(m, remaining, t), StrAckStart)

\* a stop_recording accepted while recording only
LocalStop_RecordingOnly(m) ==
    IF m.d.app_state = "RECORDING" THEN DevSent(OnLongPress(m), StrAckStop)
    ELSE DevSent(m, StrErrStop)

\* _handle_local_command, cmd == "stop_recording"
LocalStop(m) ==
    IF m.d.app_state \in {"RECORDING", "PAUSED"} THEN DevSent(OnLongPress(m), StrAckStop)
    ELSE DevSent(m, StrErrStop)

\* _handle_local_command
HandleLocalCommand(m, cmd, remaining, t) ==
    IF cmd = StrStartRecording THEN LocalStart(m, remaining, t)
    ELSE IF cmd = StrStopRecording THEN LocalStop(m)
    ELSE m

\* msg[4:].split(":")[0]
FirstField(rest) == IF IndexOf(rest, ChColon) < 0 THEN rest ELSE Take(rest, IndexOf(rest, ChColon))

\* cmd_name = msg[4:].split(":")[0].strip().lower()
LocalName(msg) == Lower(StripSpaces(FirstField(Drop(msg, 4))))

\* the text of the responses the messages of the model are answered with
ResponseTexts == [pong |-> <<82, 83, 80, 58, 112, 111, 110, 103>>]

\* ":unknown command"
StrUnknown ==
    <<58, 117, 110, 107, 110, 111, 119, 110, 32, 99, 111, 109, 109, 97, 110, 100>>

\* "RSP:pong", f"ACK:note:{note_id}", f"ERR:{cmd}:unknown command"
ResponseText(resp) ==
    IF resp.kind = "RSP" THEN ResponseTexts[resp.name]
    ELSE IF resp.kind = "ACK"
    THEN <<65, 67, 75, 58>> \o Spelling[resp.name] \o <<ChColon>> \o Dec(resp.body)
    ELSE <<69, 82, 82, 58>> \o Spelling[resp.name] \o StrUnknown

RECURSIVE SentAll(_, _)
\* for chunk in cortex.chunk_response(response): ble.send(chunk)
SentAll(m, chunks) == IF chunks = <<>> THEN m ELSE SentAll(DevSent(m, chunks[1]), Tail(chunks))

\* len(response.encode("utf-8")) > 480, and chunk_response's max_size
DirectMax == 480

\* a response of which the first chunk only is sent
SendCortexResponse_FirstOnly(m, response) ==
    IF Len(Utf8Encode(response)) > DirectMax
    THEN DevSent(m, ChunkResponse(response, DirectMax)[1])
    ELSE DevSent(m, response)

\* _send_cortex_response
SendCortexResponse(m, response) ==
    IF Len(Utf8Encode(response)) > DirectMax THEN SentAll(m, ChunkResponse(response, DirectMax))
    ELSE DevSent(m, response)

\* response = cortex.handle_message(msg, ...); if response is not None: send it.
\* What handle_message raises is caught by the loop and logged.
CortexHandled(m, hm) ==
    IF hm.raised THEN [m EXCEPT !.st = hm.st, !.asm = hm.asm, !.d.ble_errors = @ + 1]
    ELSE IF hm.st.resp.kind = "none" THEN [m EXCEPT !.st = hm.st, !.asm = hm.asm]
    ELSE SendCortexResponse([m EXCEPT !.st = hm.st, !.asm = hm.asm], ResponseText(hm.st.resp))

\* the words of the plain texts the peer sends
PlainTexts == (<<104, 105>> :> <<"hi">>)

\* the body of the main loop's "for msg in ble.poll_messages()"
LoopCommand(m, msg, remaining, now, t, u) ==
    IF StartsWith(msg, StrCMD) /\ LocalName(msg) \in {StrStartRecording, StrStopRecording}
    THEN HandleLocalCommand(m, LocalName(msg), remaining, t)
    ELSE CortexHandled(m, HandleMessage(m.st, m.asm, msg, now, t, u))

LoopMessage(m, msg, remaining, now, t, u) ==
    IF StartsWith(msg, StrCMD) \/ StartsWith(msg, StrCHUNK)
    THEN LoopCommand(m, msg, remaining, now, t, u)
    ELSE SaveNote(m, PlainTexts[msg], t)

(***************************************************************************)
(* The state of the store and of the dispatcher before any command.        *)
(***************************************************************************)
\* no call in progress on the connection
ThIdle == [pc |-> "idle", op |-> "", table |-> "", tag |-> "", rowid |-> 0]

Threads == {"ble", "http"}

ConnIdle == [rowid |-> 0, th |-> [t \in Threads |-> ThIdle], acks |-> <<>>, nops |-> 0]

LastNone == [cmd |-> "", payload |-> PEmpty, resp |-> NoResp]

\* the directories of _FILE_DIRS when the server starts: a recording, a
\* note and a log of the device with their bytes, no upload yet
FsInit ==
    [recordings |-> [n \in {"rec.wav"} |-> <<82, 73, 70, 70>>],
     notes |-> [n \in {"n.txt"} |-> <<104, 105>>],
     logs |-> [n \in {"log.jsonl"} |-> <<123, 125>>],
     uploads |-> [n \in {} |-> <<>>]]

\* CortexDB.__init__ has run the schema script and committed it
SnapIdle ==
    [main |-> HeaderOnly, side |-> SideNone, commits |-> {EmptyDB},
     th |-> [t \in SnapThreads |-> ReqIdle], nreq |-> 0]

StoreQuiet ==
    /\ db = EmptyDB
    /\ disk = EmptyDB
    /\ active_session_id = None
    /\ clock = 0
    /\ last = LastNone
    /\ ncmds = 0
    /\ conn = ConnIdle
    /\ fs = FsInit
    /\ snap = SnapIdle
    /\ dev = DevIdle

StoreIdle == StoreQuiet /\ ble = BleIdle

(***************************************************************************)
(* The peer of the assembler: it sends chunk lines, well formed or not,    *)
(* and time passes between them.                                           *)
(***************************************************************************)
MaxTotal == 3
MaxTicks == 3
TickStep == 15

\* chunk payloads: "a" and ":b"
Datas == {<<97>>, <<58, 98>>}

\* lines that begin with CHUNK: and are no chunk:
\* "CHUNK:badformat", "CHUNK:x/2:a", "CHUNK:1/y:a", "CHUNK:1/2"
BadLines ==
    { StrCHUNK \o <<98, 97, 100, 102, 111, 114, 109, 97, 116>>,
      StrCHUNK \o <<120, 47, 50, 58, 97>>,
      StrCHUNK \o <<49, 47, 121, 58, 97>>,
      StrCHUNK \o <<49, 47, 50>> }

RunNone == [ok |-> FALSE, total |-> 0, want |-> <<>>, first |-> 0,
            dup |-> FALSE, lastSeq |-> 0]

\* what the peer has sent since the assembler was last empty: ok while it is
\* one sequence CHUNK:i/N:data_i, 1 <= i <= N, one data per i, within the window
RunAfter(seq, total, data) ==
    IF asm = AsmEmpty
    THEN IF total >= 1 /\ seq \in 1..total
         THEN [ok |-> TRUE, total |-> total, want |-> (seq :> data),
               first |-> mono, dup |-> FALSE, lastSeq |-> seq]
         ELSE RunNone
    ELSE IF /\ run.ok
            /\ total = run.total
            /\ seq \in 1..total
            /\ (seq \in DOMAIN run.want => run.want[seq] = data)
            /\ mono - run.first <= CORTEX_CHUNK_TIMEOUT_S
         THEN [run EXCEPT !.want = (seq :> data) @@ run.want,
                          !.dup = run.dup \/ seq \in DOMAIN run.want,
                          !.lastSeq = seq]
         ELSE RunNone

RtIdle == [msg |-> <<>>, max |-> 0, parts |-> <<>>, idx |-> 0, back |-> NoneStr]

InitChunk ==
    /\ asm = AsmEmpty
    /\ mono = 1
    /\ feedOut = NoneStr
    /\ run = RunNone
    /\ rt = RtIdle
    /\ StoreIdle

\* the assembler after a feed, and what feed returned
FeedStep(r) == asm' = r.asm /\ feedOut' = r.out

\* a well-formed chunk line arrives and is fed
FeedChunk ==
    \E seq \in 0..(MaxTotal + 1), total \in 0..MaxTotal, data \in Datas :
        /\ FeedStep(Feed(asm, FormatChunk(seq, total, data), mono))
        /\ run' = RunAfter(seq, total, data)
        /\ UNCHANGED <<mono, rt, storeVars>>

\* a malformed chunk line arrives and is fed
FeedMalformed ==
    \E line \in BadLines :
        /\ FeedStep(Feed(asm, line, mono))
        /\ run' = RunNone
        /\ UNCHANGED <<mono, rt, storeVars>>

\* time passes
TickMono ==
    /\ mono + TickStep <= 1 + MaxTicks * TickStep
    /\ mono' = mono + TickStep
    /\ UNCHANGED <<asm, feedOut, run, rt, storeVars>>

NextChunk == FeedChunk \/ FeedMalformed \/ TickMono

SpecChunk == InitChunk /\ [][NextChunk]_vars

\* C1: from the empty assembler, chunks CHUNK:i/N:data_i fed in any order,
\* duplicates included, inside the window: feed returns None until all of
\* 1..N have been fed, returns data_1 ... data_N joined in sequence order on
\* the input that completes them, and is empty again.
C1_Reassembly ==
    run.ok =>
        /\ (DOMAIN run.want # 1..run.total => feedOut = NoneStr /\ asm # AsmEmpty)
        /\ (DOMAIN run.want = 1..run.total =>
                /\ feedOut = Join([i \in 1..run.total |-> run.want[i]])
                /\ asm = AsmEmpty)

\* three chunks, the first one fed last, one of them fed twice
C1_Witness ==
    /\ run.ok /\ run.total = 3 /\ DOMAIN run.want = 1..3
    /\ run.dup /\ run.lastSeq = 1
    /\ run.want[1] # run.want[2]
    /\ feedOut = run.want[1] \o run.want[2] \o run.want[3]

(***************************************************************************)
(* A response is split by chunk_response and the elements are fed, in      *)
(* order, to an empty assembler.                                           *)
(***************************************************************************)
RtMinMax == 32
RtMaxes == 2
RtMaxPad == 3
RtTail == 18

\* "", "é", "€", "é€", ":", "/:"
RtWords == {<<>>, <<233>>, <<8364>>, <<233, 8364>>, <<58>>, <<47, 58>>}

Fill(n) == [i \in 1..n |-> 97]

\* short messages, and messages longer than a chunk in which a word sits
\* at every offset around the first slice boundary
RtMessages ==
    RtWords \cup
    { Fill(RtMinMax - HEADER_RESERVE - k) \o w \o Fill(RtTail) :
        k \in 0..RtMaxPad, w \in RtWords }

InitRound ==
    /\ asm = AsmEmpty
    /\ mono = 1
    /\ feedOut = NoneStr
    /\ run = RunNone
    /\ \E m \in RtMessages, x \in RtMinMax..(RtMinMax + RtMaxes - 1) :
           rt = [msg |-> m, max |-> x, parts |-> <<>>, idx |-> 0, back |-> NoneStr]
    /\ StoreIdle

\* the response is split
RtSplit ==
    /\ rt.idx = 0
    /\ rt' = [rt EXCEPT !.parts = ChunkResponse(rt.msg, rt.max), !.idx = 1]
    /\ UNCHANGED <<asm, mono, feedOut, run, storeVars>>

\* the list has one element: it is the message
RtTakeSingle ==
    /\ rt.idx = 1 /\ Len(rt.parts) = 1
    /\ rt' = [rt EXCEPT !.back = rt.parts[1], !.idx = 2]
    /\ UNCHANGED <<asm, mono, feedOut, run, storeVars>>

\* the next chunk is fed to the assembler
RtFeed ==
    /\ rt.idx >= 1 /\ rt.idx <= Len(rt.parts) /\ Len(rt.parts) > 1
    /\ FeedStep(Feed(asm, rt.parts[rt.idx], mono))
    /\ rt' = [rt EXCEPT !.back = feedOut', !.idx = rt.idx + 1]
    /\ UNCHANGED <<mono, run, storeVars>>

NextRound == RtSplit \/ RtTakeSingle \/ RtFeed

SpecRound == InitRound /\ [][NextRound]_vars

RtDone == rt.idx > Len(rt.parts) /\ rt.idx > 0

\* C2: for every message and every max >= 32, chunk_response followed by
\* feeding the elements in order to an empty assembler (or taking the single
\* element) yields the message byte-identically.
C2_RoundTrip == RtDone => Utf8Encode(rt.back) = Utf8Encode(rt.msg)

(***************************************************************************)
(* A response is split by chunk_response and its elements are handed to    *)
(* BLEClient.send in list order, as _send_cortex_response does with the    *)
(* default max of 480.  The messages put a letter, a two-byte or a         *)
(* three-byte character at and around the first and the last byte of the   *)
(* second and of the tenth slice.                                          *)
(***************************************************************************)
SplitPads == 3

\* chunk_response's default max_size, and the smallest max of the claim
SplitMaxes == {RtMinMax, DirectMax}

\* "a", "é", "€"
SplitWords == {<<97>>, <<233>>, <<8364>>}

\* the slices before the one the words sit around
SplitSlices == {1, 9}

SplitMessage(size, n, k, w1, w2) ==
    Fill(n * size - k) \o w1 \o Fill(size - 3) \o w2 \o Fill(2)

SplitMessages(max) ==
    { SplitMessage(max - HEADER_RESERVE, n, k, w1, w2) :
        n \in SplitSlices, k \in 0..SplitPads, w1 \in SplitWords, w2 \in SplitWords }

InitSplit ==
    /\ asm = AsmEmpty
    /\ mono = 1
    /\ feedOut = NoneStr
    /\ run = RunNone
    /\ \E x \in SplitMaxes : \E m \in SplitMessages(x) :
           rt = [msg |-> m, max |-> x, parts |-> <<>>, idx |-> 0, back |-> NoneStr]
    /\ StoreIdle

\* for chunk in cortex.chunk_response(response): ble.send(chunk)
SplitSend ==
    /\ rt.idx >= 1 /\ rt.idx <= Len(rt.parts) /\ rt.max = DirectMax
    /\ ble' = BleSent(ble, Len(rt.parts[rt.idx]))
    /\ rt' = [rt EXCEPT !.idx = rt.idx + 1]
    /\ UNCHANGED <<asm, mono, feedOut, run, db, disk, active_session_id, clock, last, ncmds, conn, fs, snap, dev>>

NextSplit == RtSplit \/ SplitSend

SpecSplit == InitSplit /\ [][NextSplit]_vars

\* the elements are numbered 1..N with the same N
Numbered(parts) ==
    \A i \in 1..Len(parts) : StartsWith(parts[i], FormatChunk(i, Len(parts), <<>>))

\* every element sent so far was enqueued whole, within the ceiling
SentWhole ==
    rt.max = DirectMax =>
        /\ Len(ble.outbound) = (IF rt.idx >= 1 THEN rt.idx - 1 ELSE 0)
        /\ \A i \in 1..Len(ble.outbound) :
               ble.outbound[i] = Len(rt.parts[i]) /\ Len(rt.parts[i]) <= BLE_MAX_MESSAGE_LEN

\* the UTF-8 length of the i-th element
ElementBytes(i) == Len(Utf8Encode(rt.parts[i]))

\* C39: each element of chunk_response(msg, max), max >= 32, has a UTF-8
\* length, its CHUNK:i/N: prefix included, of at most max; the elements are
\* numbered 1..N with the same N; no string enqueued for a response split
\* at 480 exceeds the ceiling of 512, and send truncates none.
C39_ElementsWithinMax ==
    rt.idx >= 1 /\ Len(rt.parts) > 1 =>
        /\ \A i \in 1..Len(rt.parts) : ElementBytes(i) <= rt.max
        /\ Numbered(rt.parts)
        /\ SentWhole

\* the bytes two stray continuation bytes and a cut lead byte grow by when
\* each is replaced by U+FFFD
ReplacedGrowth == 6

\* what holds: an element is its prefix and a slice of max - 16 bytes grown
\* by at most 6; the elements are numbered; send truncates none
C39_NumberedAndWhole ==
    rt.idx >= 1 /\ Len(rt.parts) > 1 =>
        /\ \A i \in 1..Len(rt.parts) :
               ElementBytes(i) <= Len(FormatChunk(i, Len(rt.parts), <<>>))
                                     + rt.max - HEADER_RESERVE + ReplacedGrowth
        /\ Numbered(rt.parts)
        /\ SentWhole

\* the tenth element of a response split at 480 has 482 bytes and was
\* enqueued whole
C39_LongTenth ==
    /\ rt.max = DirectMax /\ rt.idx > Len(rt.parts) /\ Len(rt.parts) >= 10
    /\ ElementBytes(10) = DirectMax + 2
    /\ ble.outbound[10] = Len(rt.parts[10])

(***************************************************************************)
(* The commands of a peer, one at a time (the BLE poll loop of main.py     *)
(* hands each message to handle_message and waits for its response).       *)
(***************************************************************************)
MaxCmds == 3
MaxTime == 1
MaxSessions == 2

UuidPool == <<"uuid-a", "uuid-b", "uuid-c", "uuid-d">>
UUIDs == {UuidPool[i] : i \in 1..MaxSessions}

NotePayloads ==
    {PEmpty, PBad, PObj([content |-> "hi"]),
     PObj([content |-> "hi", tags |-> None, project |-> "cortex", type |-> "bug"])}
ActivityPayloads ==
    {PNonObj, PObj([details |-> "x"]), PObj([program |-> "vim", project |-> "cortex"])}
SearchPayloads == {PObj([query |-> ""]), PObj([query |-> "tla", source |-> "web"])}
SessionStartPayloads == {PEmpty, PBad, PObj([ai_platform |-> "claude", hostname |-> "pc"])}
SessionEndPayloads ==
    {PEmpty, PBad, PObj([summary |-> "done"]), PObj([session_id |-> "nope"])}
        \cup {PObj([session_id |-> u, summary |-> "again"]) : u \in UUIDs}
ProjectPayloads ==
    {PEmpty, PObj([tag |-> "cortex", name |-> "Cortex"]),
     PObj([tag |-> "cortex", status |-> "done"])}
ComputerPayloads == {PObj([os |-> "linux"]), PObj([hostname |-> "pc", os |-> "linux"])}
PeoplePayloads ==
    {PBad, PObj([id |-> "tory", name |-> "Tory"]), PObj([id |-> "tory", role |-> "dev"])}
QueryPayloads ==
    {PEmpty, PObj([table |-> "files"]),
     PObj([table |-> "notes", filters |-> [project |-> "cortex"], limit |-> 1]),
     PObj([table |-> "notes", filters |-> [nope |-> "x"]]),
     PObj([table |-> "sessions", filters |-> [hostname |-> "pc"]])}

\* the dispatcher's view of the state when a command arrives
St ==
    [db |-> db, disk |-> disk, ret |-> None, cell |-> active_session_id,
     resp |-> NoResp, sql |-> NoSql, exc |-> None]

\* a uuid4 no session row carries yet
FreshUuids == {u \in UUIDs : \A i \in 1..Len(db.sessions) : db.sessions[i].id # u}

Init ==
    /\ StoreIdle
    /\ asm = AsmEmpty
    /\ mono = 1
    /\ feedOut = NoneStr
    /\ run = RunNone
    /\ rt = RtIdle

Apply(r, cmd, payload) ==
    /\ db' = r.db
    /\ disk' = r.disk
    /\ active_session_id' = r.cell
    /\ last' = [cmd |-> cmd, payload |-> payload, resp |-> r.resp]
    /\ ncmds' = ncmds + 1
    /\ UNCHANGED <<clock, conn, fs, auxVars, chunkVars>>

\* handle_message for "CMD:<cmd>:<payload>", from the split into cmd and
\* payload on
Send(cmd, payload) == Apply(Dispatch(St, cmd, payload, clock, None), cmd, payload)

Ping == ncmds < MaxCmds /\ Send("ping", PEmpty)
Note == ncmds < MaxCmds /\ \E p \in NotePayloads : Send("note", p)
Activity == ncmds < MaxCmds /\ \E p \in ActivityPayloads : Send("activity", p)
Search == ncmds < MaxCmds /\ \E p \in SearchPayloads : Send("search", p)
SessionStart ==
    /\ ncmds < MaxCmds
    /\ \E p \in SessionStartPayloads, u \in FreshUuids :
           Apply(Dispatch(St, "session_start", p, clock, u), "session_start", p)
SessionEnd == ncmds < MaxCmds /\ \E p \in SessionEndPayloads : Send("session_end", p)
ProjectUpsert == ncmds < MaxCmds /\ \E p \in ProjectPayloads : Send("project_upsert", p)
ComputerReg == ncmds < MaxCmds /\ \E p \in ComputerPayloads : Send("computer_reg", p)
PeopleUpsert == ncmds < MaxCmds /\ \E p \in PeoplePayloads : Send("people_upsert", p)
Query == ncmds < MaxCmds /\ \E p \in QueryPayloads : Send("query", p)
Unknown == ncmds < MaxCmds /\ Send("file_list", PEmpty)

\* a second of the store's clock passes
Tick ==
    /\ clock < MaxTime
    /\ clock' = clock + 1
    /\ UNCHANGED <<db, disk, active_session_id, last, ncmds, conn, fs, auxVars, chunkVars>>

\* the process ends and main.py starts again: CortexDB opens the file as it
\* was last committed, CortexProtocol starts with no active session
Restart ==
    /\ ncmds < MaxCmds
    /\ db' = disk
    /\ active_session_id' = None
    /\ last' = LastNone
    /\ ncmds' = ncmds + 1
    /\ UNCHANGED <<disk, clock, conn, fs, auxVars, chunkVars>>

Next ==
    \/ Ping \/ Note \/ Activity \/ Search \/ SessionStart \/ SessionEnd
    \/ ProjectUpsert \/ ComputerReg \/ PeopleUpsert \/ Query \/ Unknown
    \/ Tick \/ Restart

Spec == Init /\ [][Next]_vars

(***************************************************************************)
(* What the last command wrote.                                            *)
(***************************************************************************)
WrittenTable ==
    [note |-> "notes", activity |-> "activities", search |-> "searches",
     session_start |-> "sessions", project_upsert |-> "projects",
     computer_reg |-> "computers", people_upsert |-> "people"]

KeyCol ==
    [notes |-> "id", activities |-> "id", searches |-> "id", sessions |-> "id",
     projects |-> "tag", computers |-> "hostname", people |-> "id"]

\* the last command wrote a row and was acknowledged
Acked == last.cmd \in DOMAIN WrittenTable /\ last.resp.kind = "ACK"

AckedTable == WrittenTable[last.cmd]

\* the rows of table AckedTable in d that carry the acknowledged key
AckedIn(d) ==
    {i \in 1..Len(d[AckedTable]) : d[AckedTable][i][KeyCol[AckedTable]] = last.resp.body}

AckedRow == db[AckedTable][CHOOSE i \in AckedIn(db) : TRUE]

\* a step that handles command c
IsCmd(c) == ncmds' = ncmds + 1 /\ last'.cmd = c

(***************************************************************************)
(* C3.  Queries whose filters repeat fields of the acknowledged row: one   *)
(* text column that holds a value, all of them or none, with limit 1, 2 or *)
(* absent.                                                                 *)
(***************************************************************************)
NumberCols ==
    {"created_at", "started_at", "ended_at", "last_touched", "first_seen",
     "last_seen", "priority", "ram_gb", "duration_min", "size_bytes"}

TextCols(table) ==
    (Columns[table] \ NumberCols)
        \ (IF table \in {"notes", "activities", "searches"} THEN {"id"} ELSE {})

FiltersOn(row, cols) == [c \in cols |-> row[c]]

\* the text columns in which the row holds a value (a filter equal to a
\* column matches in SQL only when the column is not null)
ValueCols(table, row) == {c \in TextCols(table) : row[c] # None}

MatchingFilters(table, row) ==
    {FiltersOn(row, {c}) : c \in ValueCols(table, row)}
        \cup {FiltersOn(row, ValueCols(table, row)), FiltersOn(row, {})}

MatchingQueries(table, row) ==
    {PObj([table |-> table, filters |-> f, limit |-> lim]) :
        f \in MatchingFilters(table, row), lim \in {1, 2}}
        \cup {PObj([table |-> table, filters |-> f]) : f \in MatchingFilters(table, row)}

\* the response of a query command sent now
Returned(q) == CmdQuery(St, q).resp

Contains(resp, row) ==
    resp.kind = "RSP" /\ \E i \in 1..Len(resp.body) : resp.body[i] = row

\* the rows of the table that agree with the filters on the columns the query uses
NumMatching(table, f) ==
    Cardinality({i \in 1..Len(db[table]) :
                    \A c \in DOMAIN f : IsAlnum(c) => db[table][i][c] = f[c]})

EffectiveLimit(q) == Min(Get(q.obj, "limit", QUERY_DEFAULT_LIMIT), QUERY_MAX_LIMIT)

\* the rows the filters select are no more than the limit lets through
Covered(q) == NumMatching(q.obj.table, q.obj.filters) <= EffectiveLimit(q)

CellIsLatestOpen ==
    active_session_id # None =>
        /\ db.sessions # <<>>
        /\ db.sessions[Len(db.sessions)].id = active_session_id
        /\ db.sessions[Len(db.sessions)].ended_at = NullTime

\* C4: the row a note, activity or search command inserts carries the value
\* the active-session cell had when the command arrived, which is the id of
\* the most recent session_start not ended through the cell, or null.
C4_SessionStamp ==
    [][(ncmds' = ncmds + 1 /\ last'.cmd \in {"note", "activity", "search"}
            /\ last'.resp.kind = "ACK")
        => /\ AckedRow'.session_id = active_session_id
           /\ CellIsLatestOpen]_vars

C4_Witness ==
    /\ Acked
    /\ last.cmd = "note"
    /\ Len(db.sessions) = 2
    /\ AckedRow.session_id = db.sessions[2].id

(***************************************************************************)
(* C5                                                                      *)
(***************************************************************************)
SessionOpenIn(d, u) ==
    \E i \in 1..Len(d.sessions) :
        d.sessions[i].id = u /\ d.sessions[i].ended_at = NullTime

\* C5: an acknowledged session_start sets the cell to the id it returns and
\* leaves the session of the previous value open; session_end changes the
\* cell only by clearing it when it succeeds for the active id, and leaves it
\* alone when it names another id.
C5_Cell ==
    [][/\ (IsCmd("session_start") /\ last'.resp.kind = "ACK")
            => /\ active_session_id' = last'.resp.body
               /\ (active_session_id # None => SessionOpenIn(db', active_session_id))
       /\ (IsCmd("session_end") /\ active_session_id' # active_session_id)
            => /\ active_session_id' = None
               /\ last'.resp = Ack("session_end", active_session_id)
       /\ (IsCmd("session_end") /\ last'.payload.kind = "obj"
              /\ "session_id" \in DOMAIN last'.payload.obj
              /\ last'.payload.obj.session_id # active_session_id)
            => active_session_id' = active_session_id]_vars

C5_Witness ==
    /\ last.cmd = "session_end"
    /\ last.resp.kind = "ACK"
    /\ Len(db.sessions) = 2
    /\ last.resp.body = db.sessions[1].id
    /\ active_session_id = db.sessions[2].id

(***************************************************************************)
(* C6                                                                      *)
(***************************************************************************)
\* the session id a session_end with payload p ends
EndTarget(p) == Get(p.obj, "session_id", active_session_id)

\* C6: session_end for an id that names no open session row answers "session
\* not found or already ended" and changes no session row; an ended_at that
\* is set is never written again.
C6_EndOnce ==
    [][/\ (IsCmd("session_end") /\ ~LoadFails(last'.payload)
              /\ ~Falsy(EndTarget(last'.payload))
              /\ ~SessionOpenIn(db, EndTarget(last'.payload)))
            => /\ last'.resp = Err("session_end", "session not found or already ended")
               /\ db'.sessions = db.sessions
       /\ \A i \in 1..Len(db.sessions) :
              db.sessions[i].ended_at # NullTime
                  => /\ i <= Len(db'.sessions)
                     /\ db'.sessions[i].ended_at = db.sessions[i].ended_at]_vars

C6_Witness ==
    /\ last.cmd = "session_end"
    /\ last.resp = Err("session_end", "session not found or already ended")
    /\ last.payload.kind = "obj"
    /\ "session_id" \in DOMAIN last.payload.obj
    /\ \E i \in 1..Len(db.sessions) :
           /\ db.sessions[i].id = last.payload.obj.session_id
           /\ db.sessions[i].ended_at # NullTime
           /\ db.sessions[i].ended_at < clock
           /\ db.sessions[i].summary # last.payload.obj.summary

(***************************************************************************)
(* C8                                                                      *)
(***************************************************************************)
KeptTables ==
    {"notes", "activities", "searches", "sessions", "projects", "computers", "people"}

NonFileTotals ==
    {"notes_total", "activities_total", "searches_total", "sessions_total",
     "projects_total"}

\* the session rows of d whose ended_at is null, counted one by one
RECURSIVE OpenSessions(_, _)
OpenSessions(d, n) ==
    IF n = 0 THEN 0
    ELSE OpenSessions(d, n - 1) + (IF d.sessions[n].ended_at = NullTime THEN 1 ELSE 0)

StatsCountOpen(d) == get_stats(d).active_sessions = OpenSessions(d, Len(d.sessions))

\* C8: no step removes a row of a table other than files, so no total of
\* get_stats except files_total decreases; active_sessions is the number of
\* session rows whose ended_at is null.
C8_RowsKept ==
    [][/\ \A t \in KeptTables :
              /\ Len(db'[t]) >= Len(db[t])
              /\ \A i \in 1..Len(db[t]) : db'[t][i][KeyCol[t]] = db[t][i][KeyCol[t]]
       /\ \A k \in NonFileTotals : get_stats(db')[k] >= get_stats(db)[k]
       /\ StatsCountOpen(db)
       /\ StatsCountOpen(db')]_vars

C8_Witness ==
    /\ get_stats(db).sessions_total = 2
    /\ get_stats(db).active_sessions = 1
    /\ last.cmd = "session_end"
    /\ last.resp.kind = "ACK"

(***************************************************************************)
(* C9                                                                      *)
(***************************************************************************)
\* the row the acknowledged command reports, as the committed store holds it
ReportedIn(d) ==
    IF last.cmd = "session_end"
    THEN \E i \in 1..Len(d.sessions) :
             /\ d.sessions[i].id = last.resp.body
             /\ d.sessions[i].ended_at # NullTime
             /\ d.sessions[i].summary = Get(last.payload.obj, "summary", "")
    ELSE /\ AckedIn(d) # {}
         /\ \A i \in AckedIn(d) :
                \A c \in DOMAIN last.payload.obj \cap Columns[AckedTable] :
                    d[AckedTable][i][c] = last.payload.obj[c]

\* C9: when a command has been answered with ACK, the row it reports is in
\* the committed store with the values written, nothing is left uncommitted,
\* and a read that follows sees the row.
C9_AckCommitted ==
    last.resp.kind = "ACK" =>
        /\ ReportedIn(disk)
        /\ disk = db
        /\ last.cmd \in DOMAIN WrittenTable =>
               Contains(Returned(PObj([table |-> AckedTable, limit |-> QUERY_MAX_LIMIT])),
                        disk[AckedTable][CHOOSE i \in AckedIn(disk) : TRUE])

C9_Witness ==
    /\ last.cmd = "project_upsert"
    /\ last.resp = Ack("project", "cortex")
    /\ Len(disk.projects) = 1
    /\ disk.projects[1].status = "done"
    /\ disk.projects[1].created_at < disk.projects[1].last_touched

(***************************************************************************)
(* C10                                                                     *)
(***************************************************************************)
Required ==
    [note |-> "content", activity |-> "program", search |-> "query",
     project_upsert |-> "tag", computer_reg |-> "hostname", people_upsert |-> "id"]

\* the payload is no JSON, or lacks the required field of command c or has it empty
Invalid(c, p) ==
    \/ p.kind = "bad"
    \/ p.kind \in {"empty", "obj"} /\ Get(p.obj, Required[c], "") = ""

\* C10: a note, activity, search, project_upsert, computer_reg or
\* people_upsert command without its required field, or with a payload that
\* is no JSON, is answered ERR:<cmd>: and changes neither a table nor the
\* active-session cell.
C10_RejectedUnchanged ==
    [][(ncmds' = ncmds + 1 /\ last'.cmd \in DOMAIN Required
            /\ Invalid(last'.cmd, last'.payload))
        => /\ last'.resp.kind = "ERR"
           /\ last'.resp.name = last'.cmd
           /\ db' = db
           /\ disk' = disk
           /\ active_session_id' = active_session_id]_vars

C10_Witness ==
    /\ last.cmd = "search"
    /\ last.payload = PObj([query |-> ""])
    /\ last.resp = Err("search", "missing query field")
    /\ active_session_id # None
    /\ db.notes # <<>>

(***************************************************************************)
(* The two transports at once.  The main loop (BLE commands, voice notes)  *)
(* and an HTTP request thread call the store on the one connection opened  *)
(* with check_same_thread=False; nothing in cortex_db.py or its callers    *)
(* holds a lock around a call.  Each call of the sqlite3 library is one    *)
(* step: the statement runs, the cursor takes the connection's last insert *)
(* rowid, the commit runs and the call returns.                            *)
(***************************************************************************)
MaxConcOps == 3

OpTags == <<"r1", "r2", "r3", "r4">>

InsertOps ==
    [insert_note |-> "notes", insert_activity |-> "activities",
     insert_search |-> "searches", insert_file |-> "files"]

\* the first column an insert call fills
TagCol ==
    [notes |-> "content", activities |-> "program", searches |-> "query",
     files |-> "filename"]

\* the row of an insert call with first argument tag and the others defaulted
ConcRow(d, op, tag, t) ==
    CASE op = "insert_note" -> NoteRow(d, tag, "", "", "note", "ble", None, t)
      [] op = "insert_activity" -> ActivityRow(d, tag, "", "", "", None, 0, t)
      [] op = "insert_search" -> SearchRow(d, tag, "", "", "", None, t)
      [] op = "insert_file" ->
             FileRow(d, tag, "uploads", "", "", "", "", 0, "upload", None, t)

\* the connection as a call finds it
SC == [db |-> db, disk |-> disk, ret |-> conn.rowid, exc |-> None]

ConcFrame == UNCHANGED <<active_session_id, clock, last, ncmds, fs, auxVars, chunkVars>>

\* cur = self._conn.execute("INSERT ..."): the statement has run
Stepped(th, op, tag, r) ==
    /\ db' = r.db
    /\ conn' = [conn EXCEPT !.rowid = r.ret,
                            !.nops = @ + 1,
                            !.th[th] = [pc |-> "stepped", op |-> op,
                                        table |-> InsertOps[op], tag |-> tag,
                                        rowid |-> 0]]
    /\ UNCHANGED disk
    /\ ConcFrame

CInsert ==
    \E th \in Threads, op \in DOMAIN InsertOps :
        /\ conn.th[th].pc = "idle"
        /\ conn.nops < MaxConcOps
        /\ Stepped(th, op, OpTags[conn.nops + 1],
                   ExecInsert(SC, InsertOps[op],
                              ConcRow(db, op, OpTags[conn.nops + 1], clock)))

\* execute() ends by reading the connection's last insert rowid into
\* cur.lastrowid
CLastRowid ==
    \E th \in Threads :
        /\ conn.th[th].pc = "stepped"
        /\ conn' = [conn EXCEPT !.th[th].pc = "executed", !.th[th].rowid = conn.rowid]
        /\ UNCHANGED <<db, disk>>
        /\ ConcFrame

\* cur = self._conn.execute("DELETE FROM files WHERE id = ?")
CDelete ==
    \E th \in Threads, file_id \in 1..MaxConcOps :
        /\ conn.th[th].pc = "idle"
        /\ conn.nops < MaxConcOps
        /\ db' = ExecDeleteFile(SC, file_id).db
        /\ conn' = [conn EXCEPT !.nops = @ + 1,
                                !.th[th] = [pc |-> "executed", op |-> "delete_file",
                                            table |-> "files", tag |-> "",
                                            rowid |-> 0]]
        /\ UNCHANGED disk
        /\ ConcFrame

\* what the calls have returned, in the order of their commits
ConcReturned(acks, c) ==
    IF c.op = "delete_file" THEN acks
    ELSE Append(acks, [table |-> c.table, tag |-> c.tag, id |-> c.rowid])

\* self._conn.commit(); return cur.lastrowid
CCommit ==
    \E th \in Threads :
        /\ conn.th[th].pc = "executed"
        /\ disk' = Commit(SC).disk
        /\ conn' = [conn EXCEPT !.th[th] = ThIdle,
                                !.acks = ConcReturned(@, conn.th[th])]
        /\ UNCHANGED db
        /\ ConcFrame

NextConc == CInsert \/ CLastRowid \/ CDelete \/ CCommit

SpecConc == Init /\ [][NextConc]_vars

\* C7: per table, the ids the insert calls return are strictly increasing in
\* commit order (so pairwise distinct and never reused after a delete_file),
\* also when the two transports call at once, and each returned id is the id
\* of the row that call wrote.
C7_Ids ==
    /\ \A i, j \in 1..Len(conn.acks) :
           (i < j /\ conn.acks[i].table = conn.acks[j].table)
               => conn.acks[i].id < conn.acks[j].id
    /\ \A i \in 1..Len(conn.acks) :
           \A k \in 1..Len(db[conn.acks[i].table]) :
               db[conn.acks[i].table][k][TagCol[conn.acks[i].table]] = conn.acks[i].tag
                   => db[conn.acks[i].table][k].id = conn.acks[i].id

(***************************************************************************)
(* C17.  The upsert commands.                                              *)
(***************************************************************************)
UpsertTables == {"projects", "computers", "people"}

\* the payload fields of each upsert command with the default of the handler;
\* each is the name of the column it writes
UpsertFields ==
    [project_upsert |-> [name |-> "", status |-> "active", priority |-> 3,
                         description |-> "", collaborators |-> ""],
     computer_reg |-> [os |-> "", cpu |-> "", gpu |-> "", ram_gb |-> 0, notes |-> ""],
     people_upsert |-> [name |-> "", role |-> "", email |-> "", projects |-> "",
                        notes |-> ""]]

CreatedCol == [projects |-> "created_at", computers |-> "first_seen", people |-> "created_at"]

TouchedCols == [projects |-> {"last_touched"}, computers |-> {"last_seen"}, people |-> {}]

UniqueKeys(d) ==
    \A T \in UpsertTables : \A i, j \in 1..Len(d[T]) :
        i # j => d[T][i][KeyCol[T]] # d[T][j][KeyCol[T]]

\* the rows with the timestamps an upsert refreshes left aside
Untimed(rows, T) ==
    [i \in 1..Len(rows) |->
        [c \in DOMAIN rows[i] |-> IF c \in TouchedCols[T] THEN 0 ELSE rows[i][c]]]

\* the row of key k after the upsert carries the payload's values or the
\* defaults, the creation time of the row it replaces, and the time of the upsert
UpsertedRow(old, new, defaults, data, T, t) ==
    /\ \A f \in DOMAIN defaults : new[f] = Get(data, f, defaults[f])
    /\ new[CreatedCol[T]] = IF old = <<>> THEN t ELSE old[1][CreatedCol[T]]
    /\ \A c \in TouchedCols[T] : new[c] = t

RowsOf(rows, key, k) == SelectSeq(rows, LAMBDA r : r[key] = k)

UpsertStep(d0, d1, cmd, data, T, k, t) ==
    /\ Len(RowsOf(d1[T], KeyCol[T], k)) = 1
    /\ UpsertedRow(RowsOf(d0[T], KeyCol[T], k), RowsOf(d1[T], KeyCol[T], k)[1],
                   UpsertFields[cmd], data, T, t)

\* an upsert command was acknowledged in this step
Upserted ==
    /\ ncmds' = ncmds + 1
    /\ last'.cmd \in DOMAIN UpsertFields
    /\ last'.resp.kind = "ACK"

\* the same upsert once more, a second later
UpsertedAgain == Dispatch(St', last'.cmd, last'.payload, clock' + 1, None).db

\* C17: after any sequence of project_upsert, computer_reg, people_upsert and
\* session_start commands there is one row per project tag, computer
\* hostname and person id; an upsert on an existing key replaces every
\* non-key field with the payload's value (the default when omitted), keeps
\* created_at/first_seen and refreshes last_touched/last_seen; the same
\* upsert applied twice leaves the row that applying it once leaves,
\* timestamps aside.
C17_Upserts ==
    [][/\ UniqueKeys(db')
       /\ Upserted =>
             /\ UpsertStep(db, db', last'.cmd, last'.payload.obj,
                           WrittenTable[last'.cmd], last'.resp.body, clock)
             /\ Untimed(UpsertedAgain[WrittenTable[last'.cmd]], WrittenTable[last'.cmd])
                    = Untimed(db'[WrittenTable[last'.cmd]], WrittenTable[last'.cmd])]_vars

\* a project upserted at second 0 and again, with another status, at second 1
C17_Witness ==
    /\ last.cmd = "project_upsert" /\ last.resp.kind = "ACK"
    /\ Len(db.projects) = 1
    /\ db.projects[1].status = "done" /\ db.projects[1].name = ""
    /\ db.projects[1].created_at = 0 /\ db.projects[1].last_touched = 1


(***************************************************************************)
(* A peer that sends whole lines: commands, other text, chunks of either,  *)
(* and lines that begin with CHUNK: and are no chunk.                      *)
(***************************************************************************)
MaxMsgs == 4
ChunkCut == 6

\* the handler table of _dispatch
CommandTable ==
    {"ping", "status", "note", "activity", "search", "session_start", "session_end",
     "get_context", "project_upsert", "computer_reg", "people_upsert", "query",
     "wifi_scan", "wifi_config", "wifi_status"}

\* command lines, each with the command name it spells:
\*   CMD:ping
\*   CMD: PING :xx
\*   CMD:note:{"content":"hi"}
\*   CMD:note:{
\*   CMD:note
\*   CMD:nope
\*   CMD: Nope :{}
\*   CMD:
CommandLines ==
    { [name |-> "ping", text |-> <<67, 77, 68, 58, 112, 105, 110, 103>>],
      [name |-> "ping", text |-> <<67, 77, 68, 58, 32, 80, 73, 78, 71, 32, 58, 120, 120>>],
      [name |-> "note", text |-> <<67, 77, 68, 58, 110, 111, 116, 101, 58, 123, 34, 99, 111, 110, 116, 101, 110, 116, 34, 58, 34, 104, 105, 34, 125>>],
      [name |-> "note", text |-> <<67, 77, 68, 58, 110, 111, 116, 101, 58, 123>>],
      [name |-> "note", text |-> <<67, 77, 68, 58, 110, 111, 116, 101>>],
      [name |-> "nope", text |-> <<67, 77, 68, 58, 110, 111, 112, 101>>],
      [name |-> "nope", text |-> <<67, 77, 68, 58, 32, 78, 111, 112, 101, 32, 58, 123, 125>>],
      [name |-> "", text |-> <<67, 77, 68, 58>>] }

\* lines that are no command: "", "hello", "cmd:ping", "CMD"
OtherLines == {<<>>, <<104, 101, 108, 108, 111>>, <<99, 109, 100, 58, 112, 105, 110, 103>>, <<67, 77, 68>>}

\* "CHUNK:1/10000000000000000000:x"
HugeLine ==
    StrCHUNK \o <<49, 47, 49>> \o [i \in 1..INDEX_DIGITS |-> ChZero] \o <<58, 120>>

WholeLines == {c.text : c \in CommandLines} \cup OtherLines

InitMsg == Init

\* handle_message returns (or raises) and the state it leaves is the state
Handled(r, line, fed) ==
    /\ asm' = r.asm
    /\ feedOut' = fed
    /\ db' = r.st.db
    /\ disk' = r.st.disk
    /\ active_session_id' = r.st.cell
    /\ last' = [cmd |-> "", payload |-> PEmpty, resp |-> r.st.resp,
                raised |-> r.raised, raw |-> line]
    /\ ncmds' = ncmds + 1
    /\ UNCHANGED <<mono, run, rt, clock, conn, fs, auxVars>>

Receive(line) == Handled(HandleMessage(St, asm, line, mono, clock, None), line, NoneStr)

ReceiveChunk(line) ==
    Handled(HandleMessage(St, asm, line, mono, clock, None), line, Feed(asm, line, mono).out)

MsgCommand == ncmds < MaxMsgs /\ \E c \in CommandLines : Receive(c.text)

MsgOther == ncmds < MaxMsgs /\ \E line \in OtherLines : Receive(line)

\* a line cut in two after ChunkCut characters, one of the halves sent
MsgChunk ==
    /\ ncmds < MaxMsgs
    /\ \E line \in WholeLines :
           \/ ReceiveChunk(FormatChunk(1, 2, Take(line, ChunkCut)))
           \/ ReceiveChunk(FormatChunk(2, 2, Drop(line, ChunkCut)))

MsgBadChunk == ncmds < MaxMsgs /\ \E line \in BadLines \cup {HugeLine} : ReceiveChunk(line)

NextMsg == MsgCommand \/ MsgOther \/ MsgChunk \/ MsgBadChunk

SpecMsg == InitMsg /\ [][NextMsg]_vars

\* the message handle_message looks at: the line, or what the assembler
\* returned for a chunk line (NoneStr while the sequence is incomplete)
HmMessage == IF StartsWith(last.raw, StrCHUNK) THEN feedOut ELSE last.raw

HmIsCommand == \E c \in CommandLines : c.text = HmMessage

HmName == (CHOOSE c \in CommandLines : c.text = HmMessage).name

HmStoreKept == db' = db /\ disk' = disk /\ active_session_id' = active_session_id

HmNoAnswer == HmMessage = NoneStr \/ ~StartsWith(HmMessage, StrCMD)

\* the four cases of handle_message, leaving aside whether it raises
HmCases ==
    /\ HmNoAnswer' => last'.resp = NoResp /\ HmStoreKept
    /\ HmIsCommand' /\ HmName' \notin CommandTable =>
           last'.resp = Err(HmName', "unknown command") /\ HmStoreKept
    /\ HmIsCommand' /\ HmName' \in CommandTable =>
           last'.resp.kind \in {"RSP", "ACK", "ERR"}

\* C11: handle_message is total: it never raises; it returns None when the
\* (possibly reassembled) message does not begin with CMD: or the chunk
\* sequence is incomplete, ERR:<name>:unknown command when the lowercased,
\* trimmed name is not in the command table, and otherwise the handler's
\* RSP/ACK/ERR; in the None and unknown-command cases the store and the
\* active-session cell are unchanged.
C11_Total == [][ncmds' = ncmds + 1 => ~last'.raised /\ HmCases]_vars

\* the same without "never raises"
C11_CasesWhenReturned == [][ncmds' = ncmds + 1 /\ ~last'.raised => HmCases]_vars

(***************************************************************************)
(* A peer that fills the notes table and queries it.                       *)
(***************************************************************************)
MaxRows == 101

QueryLimits == {-1, 0, 5, 100, 150}

QueryFilters ==
    { [content |-> "hi"], [note_type |-> "bug"], [content |-> "hi", note_type |-> "zzz"],
      ("id;--" :> "x"), ("caf<U+00E9>" :> "x") }

\* the query payloads: one varies the table, one the limit, one the filters,
\* one the order_by
TableQueries ==
    {PEmpty, PObj([limit |-> 5]), PObj([table |-> "secret"]), PObj([table |-> "files"]),
     PObj([table |-> "files", limit |-> 10]), PObj([table |-> "sessions"])}
LimitQueries ==
    {PObj([table |-> "notes"])} \cup {PObj([table |-> "notes", limit |-> l]) : l \in QueryLimits}
FilterQueries == {PObj([table |-> "notes", filters |-> f]) : f \in QueryFilters}
OrderQueries ==
    {PObj([table |-> "notes", order_by |-> o, limit |-> 2]) : o \in DOMAIN OrderParts}

\* the command is handled and its statement, if any, remembered
Answered(r, cmd, payload) ==
    /\ db' = r.db
    /\ disk' = r.disk
    /\ active_session_id' = r.cell
    /\ last' = [cmd |-> cmd, payload |-> payload, resp |-> r.resp, sql |-> r.sql]
    /\ UNCHANGED <<ncmds, clock, conn, fs, auxVars, chunkVars>>

Ask(cmd, payload) == Answered(Dispatch(St, cmd, payload, clock, None), cmd, payload)

QNote == Len(db.notes) < MaxRows /\ Ask("note", PObj([content |-> "hi"]))
QTable == Len(db.notes) <= MaxRows /\ \E p \in TableQueries : Ask("query", p)
QLimit == Len(db.notes) <= MaxRows /\ \E p \in LimitQueries : Ask("query", p)
QFilter == Len(db.notes) <= MaxRows /\ \E p \in FilterQueries : Ask("query", p)
QOrder == Len(db.notes) <= MaxRows /\ \E p \in OrderQueries : Ask("query", p)

\* the file-registry commands of the protocol, with and without their
\* required field
FileCommands == {"file_register", "file_list", "file_search", "file_delete"}
FilePayloads ==
    {PObj(EmptyObj), PObj([filename |-> "proto.txt", category |-> "uploads"]),
     PObj([query |-> "proto"]), PObj([id |-> 1])}

QFile == Len(db.notes) <= MaxRows /\ \E c \in FileCommands, p \in FilePayloads : Ask(c, p)

NextQuery == QNote \/ QTable \/ QLimit \/ QFilter \/ QOrder \/ QFile

SpecQuery == Init /\ [][NextQuery]_vars

\* the last command was a query whose payload is a JSON object
Queried == last.cmd = "query" /\ last.payload.kind \in {"empty", "obj"}

QueriedTable == Get(last.payload.obj, "table", "")

\* the whitelist as _cmd_query spells it
SevenTables ==
    {"notes", "activities", "searches", "sessions", "projects", "computers", "people"}

C13_AtMostHundred ==
    Queried /\ last.resp.kind = "RSP" => Len(last.resp.body) <= QUERY_MAX_LIMIT

\* a name made of ASCII letters and digits only
PurelyAlnum(name) == name \notin UnderscoreNames \cup PunctuatedNames \cup AccentedNames

\* a name made of characters of [A-Za-z0-9_] only
SafeName(name) == name \notin PunctuatedNames \cup AccentedNames

QueriedFilters == Get(last.payload.obj, "filters", EmptyObj)

\* C14: a query command is rejected when any filter column name is not
\* purely alphanumeric, and no character outside [A-Za-z0-9_] of a filter key
\* or of an order_by value is ever interpolated into the executed statement.
C14_NamesChecked ==
    Queried /\ QueriedTable \in SevenTables =>
        /\ (\E col \in DOMAIN QueriedFilters : ~PurelyAlnum(col)) => last.resp.kind = "ERR"
        /\ \A name \in last.sql.names : SafeName(name)

\* the part of C14 about punctuation: no name with a character that is
\* neither a letter, a digit nor an underscore reaches the statement
C14_NoPunctuation == Queried => last.sql.names \cap PunctuatedNames = {}

\* the filters of the last query that name a column of the queried table
ColumnFilters == DOMAIN QueriedFilters \cap Columns[QueriedTable]

\* every row of the result agrees with the filters on the columns cols
RowsAgree(cols) ==
    \A i \in 1..Len(last.resp.body) :
        \A col \in cols : SqlEq(last.resp.body[i][col], QueriedFilters[col])

QueryAnswered == Queried /\ QueriedTable \in SevenTables /\ last.resp.kind = "RSP"

\* C31: every row of an RSP:query result satisfies column = value for every
\* key/value pair of the request's filters, for every column of the queried
\* table, columns with an underscore in their name included: a supplied
\* filter is never silently ignored.
C31_EveryFilterApplied == QueryAnswered => RowsAgree(ColumnFilters)

\* what the code gives: the result agrees with the filters whose column name
\* is purely alphanumeric
C31_AlnumFiltersApplied ==
    QueryAnswered => RowsAgree({col \in ColumnFilters : IsAlnum(col)})

\* a query filtered on note_type answered with a note of another type
C31_IgnoredFilter ==
    /\ QueryAnswered /\ DOMAIN QueriedFilters = {"note_type"}
    /\ \E i \in 1..Len(last.resp.body) :
           last.resp.body[i].note_type # QueriedFilters.note_type

\* C15: a query command with table "files" is accepted like the seven
\* non-file tables: it answers RSP:query:<json-array>, not an error.
C15_FilesQueried == Queried /\ QueriedTable = "files" => last.resp.kind = "RSP"

\* the last command was file command c and its payload carries field
FileCmd(c, field) ==
    last.cmd = c /\ last.payload.kind = "obj" /\ field \in DOMAIN last.payload.obj

\* C16: the dispatcher serves the file-registry commands: file_register with
\* a filename inserts a files row and answers ACK:file_register:<id>;
\* file_list and file_search answer RSP with the rows; file_delete with an id
\* answers ACK:file_delete; without the required field each answers ERR with
\* the store unchanged.
C16_FileCommands ==
    /\ FileCmd("file_register", "filename") =>
           /\ last.resp.kind = "ACK" /\ last.resp.name = "file_register"
           /\ \E i \in 1..Len(db.files) : db.files[i].filename = last.payload.obj.filename
    /\ last.cmd = "file_list" => last.resp.kind = "RSP"
    /\ FileCmd("file_search", "query") => last.resp.kind = "RSP"
    /\ FileCmd("file_delete", "id") => last.resp.kind = "ACK"
    /\ last.cmd = "file_register" /\ ~FileCmd("file_register", "filename") =>
           last.resp.kind = "ERR"
    /\ last.cmd = "file_search" /\ ~FileCmd("file_search", "query") => last.resp.kind = "ERR"
    /\ last.cmd = "file_delete" /\ ~FileCmd("file_delete", "id") => last.resp.kind = "ERR"

(***************************************************************************)
(* A caller of CortexDB (main.py registers recordings and notes with        *)
(* insert_file and insert_note, the handlers call the others): sessions    *)
(* are started and rows inserted with a session link of the caller's       *)
(* choice.                                                                 *)
(***************************************************************************)
MaxStoreRows == 3

\* a session id no start_session returns
NoSuchSession == "nosuch"

SessionLinks == {None, NoSuchSession} \cup UUIDs

InsertCalls == {"insert_note", "insert_activity", "insert_search", "insert_file"}

InsertedTable ==
    [insert_note |-> "notes", insert_activity |-> "activities",
     insert_search |-> "searches", insert_file |-> "files"]

StoreRows == Len(db.notes) + Len(db.activities) + Len(db.searches) + Len(db.files)

\* the call returns, or raises, and the store is as it left it
Called(r, call, session_id) ==
    /\ db' = r.db
    /\ disk' = r.disk
    /\ last' = [cmd |-> call, payload |-> PEmpty, resp |-> NoResp,
                session_id |-> session_id, ret |-> r.ret, exc |-> r.exc]
    /\ UNCHANGED <<active_session_id, ncmds, clock, conn, fs, auxVars, chunkVars>>

DbStartSession ==
    /\ Len(db.sessions) < MaxSessions
    /\ \E u \in FreshUuids : Called(start_session(St, u, "claude", "pc", "linux", clock),
                                     "start_session", None)

DbInsertNote ==
    /\ StoreRows < MaxStoreRows
    /\ \E sid \in SessionLinks :
           Called(insert_note(St, "hi", "", "", "note", "ble", sid, clock), "insert_note", sid)

DbInsertActivity ==
    /\ StoreRows < MaxStoreRows
    /\ \E sid \in SessionLinks :
           Called(insert_activity(St, "vim", "", "", "", sid, 0, clock), "insert_activity", sid)

DbInsertSearch ==
    /\ StoreRows < MaxStoreRows
    /\ \E sid \in SessionLinks :
           Called(insert_search(St, "tla", "", "", "", sid, clock), "insert_search", sid)

DbInsertFile ==
    /\ StoreRows < MaxStoreRows
    /\ \E sid \in SessionLinks :
           Called(insert_file(St, "a.wav", "recordings", "", "", "", "", 0, "device", sid, clock),
                  "insert_file", sid)

NextStore == DbStartSession \/ DbInsertNote \/ DbInsertActivity \/ DbInsertSearch \/ DbInsertFile

SpecStore == Init /\ [][NextStore]_vars

\* the last call was an insert whose session_id matches no row of sessions
DanglingInsert ==
    /\ last.cmd \in InsertCalls
    /\ last.session_id # None
    /\ \A i \in 1..Len(db.sessions) : db.sessions[i].id # last.session_id

\* C18: insert_note, insert_activity, insert_search and insert_file called
\* with a session_id that matches no row of sessions succeed, store the row
\* with the dangling link and return its id.
C18_DanglingLink ==
    DanglingInsert =>
        /\ last.exc = None
        /\ \E i \in 1..Len(db[InsertedTable[last.cmd]]) :
               /\ db[InsertedTable[last.cmd]][i].id = last.ret
               /\ db[InsertedTable[last.cmd]][i].session_id = last.session_id

(***************************************************************************)
(* A client of the HTTP server, with and without the token.                *)
(***************************************************************************)
MaxReqs == 3

AuthNone == [scheme |-> "", token |-> ""]

Auths ==
    {AuthNone, [scheme |-> "Bearer ", token |-> "wrong"],
     [scheme |-> "bearer ", token |-> ServerToken],
     [scheme |-> "Bearer ", token |-> "caf<U+00E9>"],
     [scheme |-> "Bearer ", token |-> ServerToken]}

\* /health, /health/, /nothing, /api/cmd, /files/db, /files/uploads,
\* /files/notes, /files/x, and files of the four categories
Paths ==
    {<<"health">>, <<"health", "">>, <<"nothing">>, <<"api", "cmd">>, <<"files", "db">>,
     <<"files", "uploads">>, <<"files", "notes">>, <<"files", "x">>,
     <<"files", "notes", "n.txt">>, <<"files", "logs", "log.jsonl">>,
     <<"files", "recordings", "rec.wav">>, <<"files", "recordings", "rec.wav", "">>,
     <<"files", "uploads", "up.txt">>, <<"files", "uploads", "n.txt">>,
     <<"files", "uploads", "..">>, <<"files", "uploads", "up.txt", "x">>,
     <<"files", "uploads", "..", "notes", "n.txt">>}

NoJson == [kind |-> "bad", command |-> "", payload |-> PEmpty]

\* the JSON bodies of /api/cmd: not JSON, an array, no command, ping, an
\* unknown command, a note, a session
CmdBodies ==
    {NoJson, [kind |-> "nonobj", command |-> "", payload |-> PEmpty],
     [kind |-> "obj", command |-> "", payload |-> PEmpty],
     [kind |-> "obj", command |-> "ping", payload |-> PEmpty],
     [kind |-> "obj", command |-> "nope", payload |-> PEmpty],
     [kind |-> "obj", command |-> "note", payload |-> PObj([content |-> "hi"])],
     [kind |-> "obj", command |-> "session_start", payload |-> PEmpty]}

\* Content-Length headers of /api/cmd
CmdLengths == {5, MAX_CMD_BODY + 1}

UploadNames == {"", "up.txt", "../notes/n.txt", ".hidden"}

\* Content-Length headers of an upload
UploadLengths == {-5, 0, 5, MAX_UPLOAD + 1}

\* what the client sends after the headers before it closes: "hi", "hello"
UploadBodies == {<<104, 105>>, <<104, 101, 108, 108, 111>>}

Request(method, segs, auth, json, filename, length) ==
    [method |-> method, segs |-> segs, auth |-> auth, json |-> json,
     filename |-> filename, length |-> length, body |-> <<>>]

UploadRequest(auth, filename, length, body) ==
    [Request("POST", <<"files", "uploads">>, auth, NoJson, filename, length)
        EXCEPT !.body = body]

\* the handler's view of the server with the directories as they are in dirs
HAt(dirs) == [st |-> St, fs |-> dirs, status |-> NoStatus, out |-> NoOut]

HSt == HAt(fs)

\* the request is answered (or the connection closed) and the state is what
\* the handler left
Served(r, req) ==
    /\ db' = r.st.db
    /\ disk' = r.st.disk
    /\ active_session_id' = r.st.cell
    /\ fs' = r.fs
    /\ last' = [cmd |-> req.method, payload |-> PEmpty, resp |-> r.st.resp,
                req |-> req, status |-> r.status, out |-> r.out]
    /\ ncmds' = ncmds + 1
    /\ UNCHANGED <<clock, conn, auxVars, chunkVars>>

HttpGet ==
    /\ ncmds < MaxReqs
    /\ \E segs \in Paths, auth \in Auths :
           Served(DoGet(HSt, Request("GET", segs, auth, NoJson, "", 0)),
                  Request("GET", segs, auth, NoJson, "", 0))

HttpCmd ==
    /\ ncmds < MaxReqs
    /\ \E auth \in Auths, json \in CmdBodies, n \in CmdLengths, u \in FreshUuids :
           Served(DoPost(HSt, Request("POST", <<"api", "cmd">>, auth, json, "", n), clock, u),
                  Request("POST", <<"api", "cmd">>, auth, json, "", n))

HttpUpload ==
    /\ ncmds < MaxReqs
    /\ \E auth \in Auths, name \in UploadNames, n \in UploadLengths, b \in UploadBodies :
           Served(DoPost(HSt, UploadRequest(auth, name, n, b), clock, None),
                  UploadRequest(auth, name, n, b))

HttpPost ==
    /\ ncmds < MaxReqs
    /\ \E segs \in Paths \ {<<"api", "cmd">>, <<"files", "uploads">>}, auth \in Auths :
           Served(DoPost(HSt, Request("POST", segs, auth, NoJson, "up.txt", 5), clock, None),
                  Request("POST", segs, auth, NoJson, "up.txt", 5))

HttpDelete ==
    /\ ncmds < MaxReqs
    /\ \E segs \in Paths, auth \in Auths :
           Served(DoDelete(HSt, Request("DELETE", segs, auth, NoJson, "", 0)),
                  Request("DELETE", segs, auth, NoJson, "", 0))

NextHttp == HttpGet \/ HttpCmd \/ HttpUpload \/ HttpPost \/ HttpDelete

SpecHttp == Init /\ [][NextHttp]_vars

\* the request of this step carries the server's token as a bearer token
WithToken(req) == req.auth.scheme = "Bearer " /\ req.auth.token = ServerToken

\* GET /health
IsHealth(req) == req.method = "GET" /\ RStrip(req.segs) = <<"health">>

NothingChanged ==
    /\ db' = db /\ disk' = disk
    /\ active_session_id' = active_session_id
    /\ fs' = fs

\* C19: every GET, POST or DELETE request on a route other than GET /health
\* that carries no Authorization header, or a bearer token different from
\* the server's, is answered 401 and changes neither the store, nor the
\* active-session cell, nor any file on disk.
C19_Unauthorized ==
    [][ncmds' = ncmds + 1 /\ ~WithToken(last'.req) /\ ~IsHealth(last'.req) =>
           last'.status = 401 /\ NothingChanged]_vars

\* the part of C19 that is about the state
C19_UnauthorizedChangesNothing ==
    [][ncmds' = ncmds + 1 /\ ~WithToken(last'.req) /\ ~IsHealth(last'.req) =>
           last'.status \in {401, NoStatus} /\ NothingChanged]_vars

\* an authenticated DELETE /files/<category>/<filename>
IsDelete(req) ==
    req.method = "DELETE" /\ WithToken(req) /\ IsFilesPath(RStrip(req.segs))
        /\ Len(RStrip(req.segs)) = 3

DeleteCategory(req) == RStrip(req.segs)[2]

DeleteName(req) == RStrip(req.segs)[3]

\* C20: no sequence of HTTP requests removes a file from the notes or logs
\* directories: an authenticated DELETE /files/<category>/<filename> with a
\* category other than recordings or uploads is answered 403 and deletes
\* nothing, and a DELETE on recordings or uploads removes exactly the one
\* named file.
C20_NotesAndLogsKept ==
    [][/\ DOMAIN fs.notes \subseteq DOMAIN fs'.notes
       /\ DOMAIN fs.logs \subseteq DOMAIN fs'.logs
       /\ ncmds' = ncmds + 1 /\ IsDelete(last'.req) =>
             IF DeleteCategory(last'.req) \notin {"recordings", "uploads"}
             THEN last'.status = 403 /\ fs' = fs
             ELSE fs' = [fs EXCEPT ![DeleteCategory(last'.req)] =
                                       Without(@, DeleteName(last'.req))]]_vars

\* a recording was deleted; the note and the log are where they were
C20_Witness ==
    /\ ncmds > 0 /\ IsDelete(last.req) /\ last.status = 200
    /\ DeleteCategory(last.req) = "recordings"
    /\ DOMAIN fs.recordings = {} /\ DOMAIN fs.notes = {"n.txt"}
    /\ DOMAIN fs.logs = {"log.jsonl"}

\* an authenticated POST /files/uploads answered 200
IsUpload(l) ==
    l.req.method = "POST" /\ WithToken(l.req) /\ l.status = 200
        /\ RStrip(l.req.segs) = <<"files", "uploads">>

\* the body of the request: the bytes sent, Content-Length of them at most
BodyOf(req) == Take(req.body, req.length)

\* the segments of the path /files/uploads/<name>
UploadPath(name) ==
    IF name = "../notes/n.txt" THEN <<"files", "uploads", "..", "notes", "n.txt">>
    ELSE <<"files", "uploads", name>>

\* the answer to an authenticated GET of the path when the directories are dirs
Got(dirs, segs) ==
    DoGet(HAt(dirs), Request("GET", segs, [scheme |-> "Bearer ", token |-> ServerToken],
                             NoJson, "", 0))

\* GET /files/uploads/<name> answers 200 with exactly the bytes of data
Serves(dirs, name, data) ==
    /\ Got(dirs, UploadPath(name)).status = 200
    /\ Got(dirs, UploadPath(name)).out.body = data
    /\ Got(dirs, UploadPath(name)).out.length = Len(data)

\* GET /files/uploads lists the name
Lists(dirs, name) == name \in Got(dirs, <<"files", "uploads">>).out.files

\* a step that is neither an upload nor a DELETE answered 200
NoUploadNoDelete(l) == ~IsUpload(l) /\ ~(IsDelete(l.req) /\ l.status = 200)

\* C21: after an authenticated POST /files/uploads with X-Filename f and a
\* non-empty body B is answered 200, GET /files/uploads/f returns exactly B
\* with Content-Length equal to the length of B and the listing of
\* /files/uploads contains f, until f is uploaded again or deleted (no other
\* request changes the uploads); the size the upload response reports is
\* the number of bytes stored.
C21_UploadRoundTrip ==
    [][/\ ncmds' = ncmds + 1 /\ IsUpload(last') /\ BodyOf(last'.req) # <<>> =>
             /\ Serves(fs', last'.req.filename, BodyOf(last'.req))
             /\ Lists(fs', last'.req.filename)
             /\ \E n \in DOMAIN fs'.uploads : last'.out.size = Len(fs'.uploads[n])
                                                 /\ fs'.uploads[n] = BodyOf(last'.req)
       /\ ncmds' = ncmds + 1 /\ NoUploadNoDelete(last') => fs'.uploads = fs.uploads]_vars

\* what the server does: the bytes of the body that arrived are stored under
\* the base name of X-Filename and served from there, whatever size the
\* response reported, and only uploads and deletions change the uploads
C21_StoredUnderBaseName ==
    [][/\ ncmds' = ncmds + 1 /\ IsUpload(last') =>
             /\ Serves(fs', SafeFilename(last'.req.filename), BodyOf(last'.req))
             /\ Lists(fs', SafeFilename(last'.req.filename))
             /\ last'.out.size = last'.req.length
       /\ ncmds' = ncmds + 1 /\ NoUploadNoDelete(last') => fs'.uploads = fs.uploads]_vars

\* the characters of the names the requests and the directories hold
NameText ==
    [n \in {""} |-> <<>>]
    @@ ("up.txt" :> <<117, 112, 46, 116, 120, 116>>)
    @@ ("n.txt" :> <<110, 46, 116, 120, 116>>)
    @@ ("rec.wav" :> <<114, 101, 99, 46, 119, 97, 118>>)
    @@ ("log.jsonl" :> <<108, 111, 103, 46, 106, 115, 111, 110, 108>>)
    @@ (".." :> <<46, 46>>)
    @@ (".hidden" :> <<46, 104, 105, 100, 100, 101, 110>>)
    @@ ("../notes/n.txt" :> <<46, 46, 47, 110, 111, 116, 101, 115, 47, 110, 46, 116, 120, 116>>)

ChDot == 46

StartsWithDot(name) == NameText[name] # <<>> /\ NameText[name][1] = ChDot

HoldsDotDot(name) ==
    \E i \in 1..(Len(NameText[name]) - 1) :
        NameText[name][i] = ChDot /\ NameText[name][i + 1] = ChDot

HoldsSlash(name) == \E i \in 1..Len(NameText[name]) : NameText[name][i] = ChSlash

\* empty, starting with ".", or containing ".."
Refusable(name) == name = "" \/ StartsWithDot(name) \/ HoldsDotDot(name)

\* an authenticated upload, or an authenticated download or delete that
\* names a file of a category it may address
IsNamedUpload(req) ==
    req.method = "POST" /\ WithToken(req) /\ RStrip(req.segs) = <<"files", "uploads">>

IsNamedPath(req) ==
    /\ WithToken(req) /\ IsFilesPath(RStrip(req.segs)) /\ Len(RStrip(req.segs)) = 3
    /\ \/ req.method = "GET" /\ RStrip(req.segs)[2] \in FileDirs
       \/ req.method = "DELETE" /\ RStrip(req.segs)[2] \in DeleteAllowed

\* the filename the request supplies, and the category it addresses
SuppliedName(req) == IF IsNamedUpload(req) THEN req.filename ELSE RStrip(req.segs)[3]

Addressed(req) == IF IsNamedUpload(req) THEN "uploads" ELSE RStrip(req.segs)[2]

\* the names of a directory whose file was written or removed in this step
Touched(c) ==
    {n \in DOMAIN fs[c] \cup DOMAIN fs'[c] :
        n \notin DOMAIN fs[c] \/ n \notin DOMAIN fs'[c] \/ fs[c][n] # fs'[c][n]}

\* a name directly inside a directory, and not hidden
DirectName(name) == name # "" /\ ~HoldsSlash(name) /\ ~StartsWithDot(name)

\* what the step wrote or removed is one visible file directly inside the
\* addressed directory; what it streamed is such a file of that directory
Confined(l) ==
    /\ \A c \in FileDirs : \A n \in Touched(c) : c = Addressed(l.req) /\ DirectName(n)
    /\ l.req.method = "GET" /\ l.status = 200 =>
           \E n \in DOMAIN fs[Addressed(l.req)] :
               DirectName(n) /\ l.out.body = fs[Addressed(l.req)][n]

\* C37: for every filename supplied in a download or delete path or in the
\* X-Filename header of an upload, the file read, written or removed lies
\* directly inside the directory of the addressed category and is not
\* hidden; a name that is empty, starts with "." or contains ".." is
\* answered 400 and no file is touched.
C37_NamesConfined ==
    [][ncmds' = ncmds + 1 /\ (IsNamedUpload(last'.req) \/ IsNamedPath(last'.req)) =>
          /\ Confined(last')
          /\ (Refusable(SuppliedName(last'.req)) => last'.status = 400 /\ fs' = fs)]_vars

\* what holds: the file touched is confined as C37 says, and the request is
\* answered 400 with no file touched when the last component of the name
\* (what follows its last slash) is empty, starts with "." or contains ".."
C37_BaseNamesConfined ==
    [][ncmds' = ncmds + 1 /\ (IsNamedUpload(last'.req) \/ IsNamedPath(last'.req)) =>
          /\ Confined(last')
          /\ (Refusable(Basename(SuppliedName(last'.req))) =>
                 last'.status = 400 /\ fs' = fs)]_vars

\* an upload named ../notes/n.txt has been answered 200 and stored as
\* n.txt of the uploads; the note n.txt is what it was
C37_RenamedUpload ==
    /\ ncmds > 0 /\ IsNamedUpload(last.req) /\ last.req.filename = "../notes/n.txt"
    /\ last.status = 200
    /\ "n.txt" \in DOMAIN fs.uploads /\ fs.notes = FsInit.notes

(***************************************************************************)
(* Two clients download the store with GET /files/db while notes are       *)
(* written through the dispatcher.                                         *)
(***************************************************************************)
MaxSnapReqs == 3

MaxSnapWrites == 2

SnapNotes == {PObj([content |-> "hi"])}

SnapFrame == UNCHANGED <<db, disk, active_session_id, clock, last, ncmds, conn, fs, ble, dev, chunkVars>>

\* a request for /files/db arrives: _serve_db up to the copy of the main file
SnapStart ==
    /\ snap.nreq < MaxSnapReqs
    /\ \E t \in SnapThreads :
           /\ snap.th[t].pc \in {"idle", "done"}
           /\ snap' = ServeDbCopy(snap, t, disk)
    /\ SnapFrame

SnapCopyWal ==
    /\ \E t \in SnapThreads :
           /\ snap.th[t].pc = "copied"
           /\ snap' = ServeDbCopyWal(snap, t, disk)
    /\ SnapFrame

SnapHeaders ==
    /\ \E t \in SnapThreads :
           /\ snap.th[t].pc = "walcopied"
           /\ snap' = ServeDbHeaders(snap, t)
    /\ SnapFrame

SnapStream ==
    /\ \E t \in SnapThreads :
           /\ snap.th[t].pc = "headers"
           /\ snap' = ServeDbStream(snap, t)
    /\ SnapFrame

SnapUnlink ==
    /\ \E t \in SnapThreads :
           /\ snap.th[t].pc \in {"streamed", "raised"}
           /\ snap' = ServeDbUnlink(snap, t)
    /\ SnapFrame

\* the dispatcher's state after a note command on the state as it is
SnapNoted(payload) == Dispatch(St, "note", payload, clock, None)

\* a note arrives over /api/cmd or BLE and is committed
SnapWrite ==
    /\ ncmds < MaxSnapWrites
    /\ \E payload \in SnapNotes, checkpoint \in BOOLEAN :
           /\ db' = SnapNoted(payload).db
           /\ disk' = SnapNoted(payload).disk
           /\ last' = [cmd |-> "note", payload |-> payload, resp |-> SnapNoted(payload).resp]
           /\ snap' = WalCommit(snap, SnapNoted(payload).disk, checkpoint)
    /\ ncmds' = ncmds + 1
    /\ UNCHANGED <<active_session_id, clock, conn, fs, ble, dev, chunkVars>>

NextSnap == SnapStart \/ SnapCopyWal \/ SnapHeaders \/ SnapStream \/ SnapUnlink \/ SnapWrite

SpecSnap == Init /\ [][NextSnap]_vars

\* the requests for /files/db that have ended with a response
SnapAnswered == {t \in SnapThreads : snap.th[t].pc = "done" /\ snap.th[t].status = 200}

\* the image holds every note of the store state before
HoldsAll(img, before) ==
    /\ img \notin {Absent, HeaderOnly}
    /\ Len(img.notes) >= Len(before.notes)
    /\ SubSeq(img.notes, 1, Len(before.notes)) = before.notes

\* no request for /files/db is in progress
SnapQuiet == \A t \in SnapThreads : snap.th[t].pc \in {"idle", "done"}

\* C22: the body returned by GET /files/db is the store as it was at one
\* commit point, holds every write committed before the request started,
\* and is as long as the announced Content-Length, whatever writes and
\* other GET /files/db requests run at the same time; once the requests
\* have ended no sidecar copy exists.
C22_ConsistentSnapshot ==
    /\ \A t \in SnapAnswered :
           /\ snap.th[t].body \in snap.commits
           /\ HoldsAll(snap.th[t].body, snap.th[t].began)
           /\ FileSize(snap.th[t].body) = snap.th[t].length
    /\ SnapQuiet => snap.side = SideNone

\* the part of C22 about the sidecar: it is gone when no request is running
C22_SidecarRemoved == SnapQuiet => snap.side = SideNone

\* with one request at a time the body is the main file, whole, with its
\* length announced
C22_MainFileStreamed ==
    snap.nreq <= 1 =>
        \A t \in SnapAnswered :
            /\ snap.th[t].body \in snap.commits \cup {HeaderOnly}
            /\ FileSize(snap.th[t].body) = snap.th[t].length

\* an authenticated POST /api/cmd
IsCmdPost(req) ==
    req.method = "POST" /\ WithToken(req) /\ RStrip(req.segs) = <<"api", "cmd">>

\* the status the handler owes the request
CmdStatus(req) ==
    IF req.length > MAX_CMD_BODY THEN 413
    ELSE IF req.json.kind # "obj" \/ req.json.command = "" THEN 400
    ELSE 200

\* the response of a 200 is what the dispatcher answered
CmdResponse(l) == l.status = 200 => l.resp.kind \in {"RSP", "ACK", "ERR"}

\* C23: every authenticated POST /api/cmd ends with one HTTP response and no
\* exception escapes: 413 when Content-Length exceeds 1 MiB, 400 when the
\* body is not valid JSON or has no command, also when it is valid JSON but
\* not an object, and otherwise 200 with the dispatcher's string, also when
\* that string is an ERR.
C23_CmdAnswered ==
    [][ncmds' = ncmds + 1 /\ IsCmdPost(last'.req) =>
           /\ last'.status # NoStatus
           /\ last'.status = CmdStatus(last'.req)
           /\ CmdResponse(last')]_vars

\* what holds: a body that is a JSON object, or no JSON at all, is answered
\* as C23 says
C23_ObjectsAnswered ==
    [][ncmds' = ncmds + 1 /\ IsCmdPost(last'.req) /\ last'.req.json.kind # "nonobj" =>
           /\ last'.status = CmdStatus(last'.req)
           /\ CmdResponse(last')]_vars

(***************************************************************************)
(* The BLE worker with a peer that is found or not, connects or not, and   *)
(* drops the link, while the main loop sends and stops the transport.      *)
(***************************************************************************)
MaxOut == 2

ScanResults == {"found", "none", "raised"}

ConnectResults == {"connected", "unconnected", "raised"}

Mtus == {NoMtu, 23, 512}

SendLengths == {3, 600}

BleFrame == UNCHANGED <<storeVars0, snap, dev, chunkVars>>

BleStart == ble.pc = "init" /\ ble' = BleStarted(ble) /\ BleFrame

BleStop == ble.running /\ ble' = BleStopped(ble) /\ BleFrame

BleSend ==
    /\ Len(ble.outbound) < MaxOut
    /\ \E n \in SendLengths : ble' = BleSent(ble, n)
    /\ BleFrame

BleScan ==
    /\ ble.pc = "scan"
    /\ \E result \in ScanResults : ble' = Scanned(ble, result)
    /\ BleFrame

BleScanSleep == ble.pc = "scan_sleep" /\ ble' = ScanSlept(ble) /\ BleFrame

BleConnect ==
    /\ ble.pc = "connect"
    /\ \E result \in ConnectResults : ble' = Connected(ble, result)
    /\ BleFrame

BleSubscribe ==
    /\ ble.pc = "subscribe"
    /\ \E mtu \in Mtus, result \in {"ok", "raised"} : ble' = Subscribed(ble, mtu, result)
    /\ BleFrame

BleServe ==
    /\ ble.pc = "serve"
    /\ \E result \in {"ok", "lost", "raised"} : ble' = Served100ms(ble, result)
    /\ BleFrame

BleAfter == ble.pc = "after" /\ ble' = AfterRound(ble) /\ BleFrame

BleSleep == ble.pc = "sleep" /\ ble' = RoundSlept(ble) /\ BleFrame

\* the steps of the worker thread
BleWorker ==
    BleScan \/ BleScanSleep \/ BleConnect \/ BleSubscribe \/ BleServe \/ BleAfter \/ BleSleep

NextBle == BleStart \/ BleStop \/ BleSend \/ BleWorker

\* the worker's event loop keeps taking its steps
SpecBle == Init /\ [][NextBle]_vars /\ WF_vars(BleWorker)

\* connected false; address, device name, MTU and RSSI cleared
StatusCleared(b) ==
    /\ ~b.connected /\ b.address = None /\ b.device_name = None
    /\ b.mtu_size = NoMtu /\ b.rssi = NoRssi

\* the round has ended and the worker is about to scan again
ScansAgain == ble.pc \in {"scan_sleep", "sleep"} /\ ble'.pc = "scan"

\* what the worker has done between a failure and the next scan
Recovered(b) ==
    StatusCleared(b) /\ b.hooked /\ b.slept = BLE_RECONNECT_INTERVAL_S

\* the loop has ended while the transport is running
LoopEnded == ble.running /\ ble.pc = "stopped"

\* C24: while the BLE transport is running, after any scan failure, connect
\* failure, exception or link loss the worker resets its status, invokes
\* the on-disconnect hook, waits the reconnect interval and scans again;
\* the loop does not end while the running flag is true, and a dropped link
\* is always eventually followed by a new scan.
C24_DropHandling ==
    /\ [][ScansAgain /\ ble.drop # "none" => Recovered(ble')]_vars
    /\ [](~LoopEnded)
    /\ (ble.running /\ ble.drop = "link") ~> (ble.pc = "scan" \/ ~ble.running)

\* what holds: after a connect failure, an exception or a link loss the
\* status is reset, the hook invoked and the interval waited before the next
\* scan; after a scan that found nothing the worker waits and scans again,
\* its status clear
C24_RecoversFromDrops ==
    /\ [][ScansAgain /\ ble.drop \in {"connect", "exception", "link"} => Recovered(ble')]_vars
    /\ [][ScansAgain /\ ble.drop = "scan" =>
             StatusCleared(ble') /\ ble'.slept = BLE_RECONNECT_INTERVAL_S]_vars
    /\ [](~LoopEnded)

\* a failure of any kind is followed by a new scan unless the transport is
\* stopped
C24_ScansAgain == (ble.running /\ ble.drop # "none") ~> (ble.pc = "scan" \/ ~ble.running)

\* the worker invokes the on-connect hook, the on-disconnect hook
ConnectHook == ble.pc = "connect" /\ ble'.pc = "subscribe"

DisconnectHook == ble.pc = "after" /\ ble'.pc = "sleep"

\* C36: the on-connect and on-disconnect hooks alternate, on-connect first:
\* on-disconnect is invoked only when the hook invoked last was on-connect
\* (so once per connection, and never after a failed scan or a failed
\* connection attempt), and on-connect only when it was not.
C36_HooksAlternate ==
    [][/\ (DisconnectHook => ble.last_hook = "connect" /\ ble.drop \notin {"scan", "connect"})
       /\ (ConnectHook => ble.last_hook # "connect")]_vars

\* what holds: on-disconnect is never invoked after a failed scan, and at
\* most once after each invocation of on-connect unless the connection
\* attempt that follows fails
C36_NeverAfterScan ==
    [][DisconnectHook =>
          /\ ble.drop \in {"connect", "exception", "link"}
          /\ (ble.drop = "link" => ble.last_hook = "connect")]_vars

\* on-disconnect has been invoked after a connection attempt that failed,
\* no connection made before
C36_HookedUnconnected ==
    ble.pc = "sleep" /\ ble.drop = "connect" /\ ble.last_hook = "disconnect" /\ ble.sent = <<>>
    /\ ble.polled = <<>> /\ ble.wire = <<>>

(***************************************************************************)
(* One BLE connection: the peer writes lines, the link delivers its bytes  *)
(* in notifications cut anywhere, the main loop polls.                     *)
(***************************************************************************)
MaxLines == 2

\* Fill(n, c): n times the character c
Run(n, c) == [i \in 1..n |-> c]

\* the lines the peer writes, in UTF-8: "hi", e-acute (195, 169) with
\* blanks around it and a carriage return, an empty line, a blank line, a
\* line of exactly 512 bytes, a line of 513 bytes
PeerLines ==
    {<<104, 105>>, <<32, 195, 169, 32, 13>>, <<>>, <<32, 32>>,
     Run(BLE_MAX_MESSAGE_LEN, 97), Run(BLE_MAX_MESSAGE_LEN + 1, 97)}

\* the sizes of a notification: one or two bytes of a short remainder, an
\* MTU payload of 509 bytes, 511 or 512 bytes, or all there is
CutSizes == {1, 2, 509, 511, 512}

MaxSmallCut == 8

\* the client is connected and subscribed
BleServing ==
    Subscribed(Connected(Scanned(BleStarted(BleIdle), "found"), "connected"), 512, "ok")

\* no chunk has been fed, no response is being chunked
ChunkIdle ==
    /\ asm = AsmEmpty
    /\ mono = 1
    /\ feedOut = NoneStr
    /\ run = RunNone
    /\ rt = RtIdle

InitNotify ==
    /\ ChunkIdle
    /\ StoreQuiet
    /\ ble = BleServing

NotifyFrame == UNCHANGED <<storeVars0, snap, dev, chunkVars>>

\* the peer writes a line and its newline
PeerWrite ==
    /\ ble.nlines < MaxLines
    /\ \E line \in PeerLines :
           ble' = [ble EXCEPT !.pending = @ \o line \o <<ChNewline>>,
                              !.nlines = @ + 1]
    /\ NotifyFrame

\* the first k bytes on their way arrive in one notification
Delivered(b, k) ==
    [OnNotify(b, Take(b.pending, k)) EXCEPT !.pending = Drop(@, k),
                                            !.sent = @ \o Take(b.pending, k)]

Notify ==
    /\ ble.pending # <<>>
    /\ \E k \in CutSizes \cup {Len(ble.pending)} :
           /\ k <= Len(ble.pending)
           /\ k \in {1, 2} => Len(ble.pending) <= MaxSmallCut
           /\ ble' = Delivered(ble, k)
    /\ NotifyFrame

Poll ==
    /\ ble.inbound # <<>>
    /\ ble' = PollMessages(ble)
    /\ NotifyFrame

NextNotify == PeerWrite \/ Notify \/ Poll

SpecNotify == InitNotify /\ [][NextNotify]_vars

RECURSIVE StreamLines(_)
\* the newline-terminated lines of a byte stream
StreamLines(bytes) ==
    IF IndexOf(bytes, ChNewline) < 0 THEN <<>>
    ELSE <<Take(bytes, IndexOf(bytes, ChNewline))>>
             \o StreamLines(Drop(bytes, IndexOf(bytes, ChNewline) + 1))

RECURSIVE OpenLine(_)
\* the bytes after the last newline: the line the peer is still sending
OpenLine(bytes) ==
    IF IndexOf(bytes, ChNewline) < 0 THEN bytes
    ELSE OpenLine(Drop(bytes, IndexOf(bytes, ChNewline) + 1))

\* every line of the stream, the one still being sent included, is at most
\* 512 bytes long
LinesWithin(bytes) ==
    /\ \A i \in 1..Len(StreamLines(bytes)) : Len(StreamLines(bytes)[i]) <= BLE_MAX_MESSAGE_LEN
    /\ Len(OpenLine(bytes)) <= BLE_MAX_MESSAGE_LEN

\* the text of each line, trimmed
TrimmedLines(lines) == [i \in 1..Len(lines) |-> Strip(DecodeStrict(lines[i]))]

NonEmpty(texts) == SelectSeq(texts, LAMBDA t : t # <<>>)

\* C25: on one BLE connection, however the peer's byte stream is cut into
\* notifications, if every line is at most 512 bytes long then the messages
\* put on the inbound queue and returned by poll_messages are exactly the
\* non-empty, trimmed lines of the stream, each once and in link order.
C25_LinesDelivered ==
    LinesWithin(ble.sent) =>
        ble.polled \o ble.inbound = NonEmpty(TrimmedLines(StreamLines(ble.sent)))

\* a line of 512 bytes has been polled, and the first byte of a two-byte
\* character waits in the buffer for the notification with the second
C25_Witness ==
    /\ LinesWithin(ble.sent)
    /\ ble.polled = <<Run(BLE_MAX_MESSAGE_LEN, 97)>>
    /\ ble.rx_buffer = <<32, 195>>

(***************************************************************************)
(* The receive buffer over connections: the peer writes lines and data     *)
(* without a newline, the link delivers them and drops, the worker         *)
(* connects again.                                                         *)
(***************************************************************************)
MaxRxLines == 2

\* a line of 514 bytes: 512 letters and e-acute (195, 169)
LongAccented == Run(BLE_MAX_MESSAGE_LEN, 97) \o <<195, 169>>

\* what the peer writes: a line with its newline, or the same bytes without
RxWrites ==
    {line \o <<ChNewline>> : line \in PeerLines \cup {LongAccented}}
        \cup {<<104, 105>>, Run(BLE_MAX_MESSAGE_LEN + 1, 97)}

RxWrite ==
    /\ ble.pc = "serve" /\ ble.nlines < MaxRxLines
    /\ \E bytes \in RxWrites :
           ble' = [ble EXCEPT !.pending = @ \o bytes, !.nlines = @ + 1]
    /\ NotifyFrame

RxNotify == ble.pc = "serve" /\ Notify

\* the link is lost: the bytes on their way are lost with it
RxDrop ==
    /\ ble.pc = "serve"
    /\ ble' = [Served100ms(ble, "lost") EXCEPT !.pending = <<>>]
    /\ NotifyFrame

\* the worker on its way to the next connection
RxWorker == BleAfter \/ BleSleep \/ BleScan \/ BleScanSleep \/ BleConnect \/ BleSubscribe

NextRx == RxWrite \/ RxNotify \/ Poll \/ RxDrop \/ RxWorker

SpecRx == InitNotify /\ [][NextRx]_vars

NoNewline(bytes) == IndexOf(bytes, ChNewline) < 0

\* this step is a notification
Notified == Len(ble'.sent) > Len(ble.sent)

\* the buffer with the bytes of this notification, after its last newline
Remainder == OpenLine(ble.rx_buffer \o Drop(ble'.sent, Len(ble.sent)))

\* the remainder has been put on the inbound queue as one message and the
\* buffer is empty
Emitted(b, rest) ==
    /\ b.rx_buffer = <<>>
    /\ b.inbound # <<>>
    /\ b.inbound[Len(b.inbound)] = Strip(DecodeStrict(rest))

BufferWithin == NoNewline(ble.rx_buffer) /\ Len(ble.rx_buffer) <= BLE_MAX_MESSAGE_LEN

\* the connection attempt begins with an empty buffer
FreshBuffer == ble.pc = "connect" /\ ble'.pc # "connect" => ble'.rx_buffer = <<>>

\* C32: after every notification the receive buffer holds no newline and at
\* most 512 bytes; a newline-free buffer that grows beyond 512 bytes is
\* emitted to the inbound queue as one message and the buffer is emptied;
\* the buffer is empty at the start of every new connection.
C32_BufferFlushed ==
    /\ []BufferWithin
    /\ [][Notified => \A r \in {Remainder} :
                          Len(r) > BLE_MAX_MESSAGE_LEN => Emitted(ble', r)]_vars
    /\ [][FreshBuffer]_vars

\* what the code gives: the bound, the empty buffer of a new connection,
\* and an overlong remainder that is emptied, and emitted when it is UTF-8
\* text
C32_FlushedWhenText ==
    /\ []BufferWithin
    /\ [][Notified => \A r \in {Remainder} :
                          Len(r) > BLE_MAX_MESSAGE_LEN =>
                              /\ ble'.rx_buffer = <<>>
                              /\ ~DecodeRaises(r) => Emitted(ble', r)]_vars
    /\ [][FreshBuffer]_vars

\* 513 bytes of the long accented line have arrived and are gone: nothing
\* in the buffer, nothing queued, nothing polled
C32_Discarded ==
    /\ ble.sent = Take(LongAccented, BLE_MAX_MESSAGE_LEN + 1)
    /\ ble.rx_buffer = <<>> /\ ble.inbound = <<>> /\ ble.polled = <<>>

\* a second connection has begun while bytes of the first were in the buffer
C32_Reconnected ==
    /\ ble.pc = "serve" /\ ble.slept = BLE_RECONNECT_INTERVAL_S
    /\ ble.rx_buffer = <<>> /\ ble.nlines > 0 /\ ble.polled = <<>> /\ ble.inbound = <<>>

(***************************************************************************)
(* The writes to the peripheral: the main loop queues messages at any      *)
(* time, the worker connects, provisions and serves, writes fail and the   *)
(* link drops.                                                             *)
(***************************************************************************)
MaxWireMsgs == 3

\* the length of the k-th message queued: one that fills a slice of 20 bytes
\* with its newline, a short one, one longer than the ceiling, then others,
\* all different
WireLength(k) ==
    CASE k = 1 -> MIN_PAYLOAD - 1
      [] k = 2 -> 3
      [] k = 3 -> BLE_MAX_MESSAGE_LEN + 88
      [] OTHER -> MIN_PAYLOAD + k

\* the discovery line: none, or DISCOVER:{"ip":"192.168.1.23","port":8420}
DiscoverLens == {NoDiscover, 42}

\* the write that raises: the first, the second, or none
FailingWrites == {0, 1, BLE_MAX_MESSAGE_LEN}

WireSend ==
    /\ ble.nout < MaxWireMsgs
    /\ ble' = [BleSent(ble, WireLength(ble.nout + 1)) EXCEPT !.nout = @ + 1]
    /\ BleFrame

WireProvision ==
    /\ ble.pc = "subscribe"
    /\ \E mtu \in Mtus, result \in {"ok", "raised"}, len \in DiscoverLens, k \in FailingWrites :
           ble' = Provisioned(ble, mtu, result, len, k)
    /\ BleFrame

WireServe ==
    /\ ble.pc = "serve"
    /\ \E result \in {"ok", "lost", "raised", "senderr"}, k \in FailingWrites :
           ble' = CommunicationLoop(ble, result, k)
    /\ BleFrame

NextWire ==
    \/ BleStart \/ BleStop \/ WireSend \/ BleScan \/ BleScanSleep \/ BleConnect
    \/ WireProvision \/ WireServe \/ BleAfter \/ BleSleep

SpecWire == Init /\ [][NextWire]_vars

\* SCAN, CONNECT, SUBSCRIBE, PROVISION, SERVE follow one another
PhaseOrder ==
    /\ ble'.pc = "connect" => ble.pc \in {"scan", "connect"}
    /\ ble'.pc = "subscribe" => ble.pc \in {"connect", "subscribe"}
    /\ ble'.pc = "serve" => ble.pc \in {"subscribe", "serve"}

\* the step from SUBSCRIBE to SERVE writes the discovery line and nothing
\* of the queue
ProvisionFirst ==
    ble.pc = "subscribe" /\ ble'.pc = "serve" =>
        /\ ble'.outbound = ble.outbound
        /\ \A i \in 1..Len(ble'.wire) : ble'.wire[i].discover
        /\ ble'.discover # NoDiscover /\ ~ble'.warned => ble'.wire # <<>>

\* the number of writes before the i-th that carry the same line
Earlier(w, i) ==
    Cardinality({j \in 1..(i - 1) : w[j].discover = w[i].discover /\ w[j].len = w[i].len})

\* the bytes of a line of len characters and its newline that are left for
\* the write after q slices of p bytes
LeftFor(len, p, q) == len + 1 - q * p

\* the i-th write is the next slice of its line: at most max(MTU - 3, 20)
\* bytes, all of them unless more are left
NextSlice(w, i, p) ==
    /\ LeftFor(w[i].len, p, Earlier(w, i)) > 0
    /\ w[i].size = Min(p, LeftFor(w[i].len, p, Earlier(w, i)))

\* the writes of one line are consecutive
Consecutive(w) ==
    \A i \in 1..Len(w) : Earlier(w, i) > 0 =>
        w[i - 1].discover = w[i].discover /\ w[i - 1].len = w[i].len

\* the line of the i-th write has been written to its newline
WrittenOut(w, i, p) ==
    \E j \in 1..Len(w) :
        /\ w[j].discover = w[i].discover /\ w[j].len = w[i].len
        /\ LeftFor(w[j].len, p, Earlier(w, j)) = w[j].size

\* max(MTU - 3, 20) of the connection, 23 being the MTU until one is acquired
ClaimedPayload ==
    IF ble.mtu_size # NoMtu /\ ble.mtu_size - 3 > 20 THEN ble.mtu_size - 3 ELSE 20

\* the writes of the connection: the discovery line before every message,
\* each line in consecutive slices, whole unless a write failed
WireShape ==
    /\ ble.pc = "subscribe" => ble.wire = <<>>
    /\ ble.pc = "serve" =>
        \A w \in {ble.wire} :
            /\ \A i \in 1..Len(w) : NextSlice(w, i, ClaimedPayload)
            /\ Consecutive(w)
            /\ \A i \in 1..Len(w) : w[i].discover => \A j \in 1..i : w[j].discover
            /\ \A i \in 1..Len(w) : w[i].discover => w[i].len = ble.discover
            /\ ~ble.warned => \A i \in 1..Len(w) : WrittenOut(w, i, ClaimedPayload)

RECURSIVE Lines(_)
\* the messages of a sequence of writes, each once, in the order of writing
Lines(w) ==
    IF w = <<>> THEN <<>>
    ELSE IF Len(w) > 1 /\ w[1].len = w[2].len /\ w[1].discover = w[2].discover
         THEN Lines(Tail(w))
    ELSE <<w[1].len>> \o Lines(Tail(w))

\* a round of SERVE takes messages from the head of the queue and writes
\* them in that order, all of them unless a write failed
Fifo ==
    ble.pc = "serve" /\ ble'.pc = "serve" /\ ble'.wire # ble.wire =>
        \A new \in {Lines(Drop(ble'.wire, Len(ble.wire)))} :
            /\ new = Take(ble.outbound, Len(new))
            /\ \A i \in 1..Len(new) : ~ble'.wire[Len(ble'.wire)].discover
            /\ ble'.outbound = Drop(ble.outbound, Len(new))
            /\ ~ble'.warned => ble'.outbound = <<>>

MaxEvents == 3
MaxDevMsgs == 2
MaxNoteWords == 1

\* what the speech engine hears
Finals == {<<"note">>, <<"record">>, <<"hi">>}

\* the peer's messages: CMD:start_recording, "CMD: Start_Recording :now",
\* CMD:stop_recording, CMD:ping and the plain text "hi"
DevMsgs ==
    {StrCMD \o StrStartRecording,
     <<67, 77, 68, 58, 32, 83, 116, 97, 114, 116, 95, 82, 101, 99, 111, 114, 100, 105, 110, 103, 32, 58, 110, 111, 119>>,
     StrCMD \o StrStopRecording,
     StrCMD \o Spelling.ping,
     <<104, 105>>}

DevM == [d |-> dev, st |-> St, fs |-> fs, ble |-> ble, asm |-> asm]

InitDev ==
    /\ ChunkIdle
    /\ StoreQuiet
    /\ ble = BleServing

DevApply(r) ==
    /\ dev' = r.d
    /\ db' = r.st.db
    /\ disk' = r.st.disk
    /\ active_session_id' = r.st.cell
    /\ fs' = r.fs
    /\ ble' = r.ble
    /\ asm' = r.asm
    /\ UNCHANGED <<clock, last, ncmds, conn, snap, mono, feedOut, run, rt>>

\* one more event of the button, the speech engine or arecord
Event(m) == [m EXCEPT !.d.nev = @ + 1]

\* the message the loop takes from poll_messages, app_state as it arrives
Arrived(m, msg) ==
    [m EXCEPT !.d.got = msg, !.d.was = m.d.app_state, !.d.sent = <<>>, !.d.nmsg = @ + 1]

ButtonShort ==
    /\ dev.nev < MaxEvents
    /\ \E remaining \in {<<>>, <<"hi">>} :
           DevApply(OnShortPress(Event(DevM), remaining, clock))

ButtonLong ==
    /\ dev.nev < MaxEvents
    /\ DevApply(OnLongPress(Event(DevM)))

Voice ==
    /\ dev.nev < MaxEvents
    /\ dev.app_state = "STT_LISTENING"
    /\ \E final \in Finals : DevApply(Heard(Event(DevM), final))

ListenSilence ==
    /\ dev.nev < MaxEvents
    /\ dev.app_state = "STT_LISTENING"
    /\ DevApply(ListenTimeout(Event(DevM)))

NoteVoice ==
    /\ dev.app_state = "NOTE_TAKING"
    /\ Len(dev.note_text) < MaxNoteWords
    /\ DevApply(NoteHeard(DevM, <<"hi">>))

NoteTimeout ==
    /\ dev.nev < MaxEvents
    /\ dev.app_state = "NOTE_TAKING"
    /\ \E partial \in {<<>>, <<"hi">>} : DevApply(NoteSilence(Event(DevM), partial, clock))

\* arecord exits on its own
ProcExits ==
    /\ dev.nev < MaxEvents
    /\ dev.proc = "running"
    /\ DevApply([Event(DevM) EXCEPT !.d.proc = "exited"])

WatchdogRuns ==
    /\ dev.app_state = "RECORDING"
    /\ ~IsAlive(dev)
    /\ DevApply(Watchdog(DevM))

BleMessage ==
    /\ dev.nmsg < MaxDevMsgs
    /\ \E msg \in DevMsgs, remaining \in {<<>>, <<"hi">>} :
           DevApply(LoopMessage(Arrived(DevM, msg), msg, remaining, mono, clock, None))

NextDev ==
    \/ ButtonShort \/ ButtonLong \/ Voice \/ ListenSilence \/ NoteVoice
    \/ NoteTimeout \/ ProcExits \/ WatchdogRuns \/ BleMessage \/ Tick

SpecDev == InitDev /\ [][NextDev]_vars

\* the loop has just handled an unchunked CMD:start_recording and answered
\* ACK:start_recording
StartAcked ==
    /\ dev'.nmsg = dev.nmsg + 1
    /\ StartsWith(dev'.got, StrCMD)
    /\ LocalName(dev'.got) = StrStartRecording
    /\ dev'.sent = <<StrAckStart>>

\* C26: when an unchunked CMD:start_recording received over BLE is answered
\* ACK:start_recording, then whatever state the device was in (STT_IDLE,
\* STT_LISTENING, NOTE_TAKING or PAUSED) the device state is RECORDING
\* afterwards with the recorder process started, and the store has not been
\* touched.
C26_StartRecordingRecords ==
    [][StartAcked =>
          /\ dev'.app_state = "RECORDING"
          /\ dev'.proc = "running"
          /\ UNCHANGED <<db, disk, active_session_id>>]_vars

\* C26, what the hook does: the acknowledged start_recording has done what a
\* short press of the button does in the state the device was in.  Only from
\* PAUSED is that the start of the recorder.
C26_AckedShortPress ==
    [][StartAcked =>
          /\ dev.app_state # "RECORDING"
          /\ dev.app_state = "PAUSED" =>
                 dev'.app_state = "RECORDING" /\ dev'.proc = "running"
                     /\ UNCHANGED <<db, disk, active_session_id>>
          /\ dev.app_state = "STT_IDLE" =>
                 dev'.app_state = "STT_LISTENING" /\ dev'.proc = dev.proc
                     /\ UNCHANGED <<db, disk, active_session_id>>
          /\ dev.app_state = "STT_LISTENING" =>
                 dev'.app_state = "STT_IDLE" /\ dev'.proc = dev.proc
                     /\ UNCHANGED <<db, disk, active_session_id>>
          /\ dev.app_state = "NOTE_TAKING" =>
                 dev'.app_state = "STT_IDLE" /\ dev'.proc = dev.proc]_vars

\* a start_recording that arrived in PAUSED has been acknowledged
C26_PausedWitness ==
    /\ dev.was = "PAUSED"
    /\ LocalName(dev.got) = StrStartRecording
    /\ dev.sent = <<StrAckStart>>
    /\ dev.app_state = "RECORDING"

\* the loop has just handled the unchunked command CMD:<name>
LocalHandled(name) ==
    /\ dev'.nmsg = dev.nmsg + 1
    /\ StartsWith(dev'.got, StrCMD)
    /\ LocalName(dev'.got) = name

\* the device but for what it has received and sent
Device_(d) ==
    <<d.app_state, d.note_text, d.proc, d.rec_state, d.listening, d.in_session,
      d.segment_count>>

\* the dispatcher has not been reached: store, cell and assembler as before
DispatcherUntouched == UNCHANGED <<db, disk, active_session_id, asm, feedOut>>

StopAccepted ==
    /\ dev'.sent = <<StrAckStop>>
    /\ dev'.app_state = "STT_IDLE"
    /\ dev'.proc = "none" /\ dev'.rec_state = "IDLE"
    /\ ~dev'.in_session /\ dev'.segment_count = 0
    /\ dev'.listening = dev.listening /\ dev'.note_text = dev.note_text

Refused(text) == dev'.sent = <<text>> /\ Device_(dev') = Device_(dev) /\ fs' = fs

\* C34: an unchunked CMD:start_recording or CMD:stop_recording received over
\* BLE is answered by the runtime glue and never reaches the dispatcher:
\* stop_recording in RECORDING or PAUSED stops the recorder, resets the
\* recording session, sets the state to STT_IDLE and sends ACK:stop_recording;
\* in any other state it sends ERR:stop_recording:not recording, and
\* start_recording in RECORDING sends ERR:start_recording:already recording,
\* both leaving device state, recorder and store unchanged.
C34_LocalCommands ==
    [][/\ LocalHandled(StrStopRecording) =>
              /\ DispatcherUntouched /\ ble'.outbound = Append(ble.outbound, Len(dev'.sent[1]))
              /\ IF dev.app_state \in {"RECORDING", "PAUSED"} THEN StopAccepted
                 ELSE Refused(StrErrStop)
       /\ LocalHandled(StrStartRecording) =>
              /\ UNCHANGED <<asm, feedOut>>
              /\ dev'.sent \in {<<StrAckStart>>, <<StrErrStart>>}
              /\ dev.app_state = "RECORDING" => Refused(StrErrStart) /\ DispatcherUntouched]_vars

\* a stop_recording that arrived in PAUSED, after a segment was recorded,
\* has been acknowledged and the session reset
C34_Witness ==
    /\ dev.was = "PAUSED"
    /\ LocalName(dev.got) = StrStopRecording
    /\ dev.sent = <<StrAckStop>>
    /\ dev.app_state = "STT_IDLE" /\ ~dev.in_session /\ dev.proc = "none"

(***************************************************************************)
(* The button and the loop.  The board calls _on_release, and through it   *)
(* on_short_press, when the button is released: the loop does not ask for  *)
(* it, so the callback runs while the loop is wherever it is, in           *)
(* particular asleep in the watchdog's time.sleep(0.5).  Everything else   *)
(* (check_held and the long press, the speech results, the BLE messages)   *)
(* is a step of the loop.                                                  *)
(***************************************************************************)
\* the button is released after a short press
PressShort ==
    /\ dev.nev < MaxEvents
    /\ \E remaining \in {<<>>, <<"hi">>} :
           DevApply(OnShortPress(Event(DevM), remaining, clock))

\* a pass of the loop that is not asleep in the watchdog
LoopTick ==
    /\ dev.tick = "loop"
    /\ \/ ButtonLong \/ Voice \/ ListenSilence \/ NoteVoice \/ NoteTimeout \/ BleMessage

\* the loop finds arecord gone and sleeps
WatchdogSleeps ==
    /\ dev.tick = "loop" /\ dev.app_state = "RECORDING" /\ ~IsAlive(dev)
    /\ DevApply(WatchdogNoticed(DevM))

\* the loop wakes and starts arecord
WatchdogWakes ==
    /\ dev.tick = "sleeping"
    /\ DevApply(WatchdogRestarted(DevM))

NextPress == PressShort \/ LoopTick \/ WatchdogSleeps \/ WatchdogWakes \/ ProcExits

SpecPress == InitDev /\ [][NextPress]_vars

RecorderRuns == dev.proc = "running"

\* C38: in every reachable state arecord runs only while the state is
\* RECORDING, the speech engine's capture is open only while the state is
\* STT_LISTENING or NOTE_TAKING, and the two never hold the microphone at
\* the same time.
C38_MicrophoneExclusive ==
    /\ (RecorderRuns => dev.app_state = "RECORDING")
    /\ (dev.listening => dev.app_state \in {"STT_LISTENING", "NOTE_TAKING"})
    /\ ~(RecorderRuns /\ dev.listening)

\* what holds: the capture is open only in STT_LISTENING and NOTE_TAKING,
\* and arecord runs only in RECORDING or after a restart by the watchdog
\* that slept through a short press
C38_CaptureOnlyWhenListening ==
    /\ (dev.listening => dev.app_state \in {"STT_LISTENING", "NOTE_TAKING"})
    /\ (RecorderRuns => dev.app_state \in {"RECORDING", "PAUSED"})
    /\ ~(RecorderRuns /\ dev.listening)

\* arecord runs while the device is paused
C38_RecordingWhilePaused ==
    dev.app_state = "PAUSED" /\ RecorderRuns /\ dev.tick = "loop" /\ ~dev.listening

(***************************************************************************)
(* The main loop and the inbound queue: messages arrive from the peer,     *)
(* the loop drains them with poll_messages and handles the batch one       *)
(* message per step; the peer may pause between two lines.                 *)
(***************************************************************************)
MaxLoopMsgs == 3

\* "CMD:" and 480 times "x": no command, answered in 500 bytes
LongUnknown == StrCMD \o Spelling.x480

\* CMD:note:{"content":"hi"}
NoteLine == StrCMD \o Spelling.note \o <<ChColon>> \o <<123, 34, 99, 111, 110, 116, 101, 110, 116, 34, 58, 34, 104, 105, 34, 125>>

\* the two chunks of NoteLine
NoteHalves == {FormatChunk(1, 2, Take(NoteLine, 20)), FormatChunk(2, 2, Drop(NoteLine, 20))}

\* the peer's lines: commands, the chunks of a command, a chunk line that
\* makes feed raise, and the plain text "hi"
LoopMsgs ==
    {StrCMD \o Spelling.ping, NoteLine, LongUnknown, StrCMD \o StrStopRecording,
     HugeLine, <<104, 105>>} \cup NoteHalves

\* a line of the peer is put to the inbound queue
LoopArrive ==
    /\ ble.nlines < MaxLoopMsgs
    /\ \E msg \in LoopMsgs :
           ble' = [PutMessage(ble, msg) EXCEPT !.nlines = @ + 1]
    /\ UNCHANGED <<db, disk, active_session_id, clock, last, ncmds, conn, fs, snap, dev, chunkVars>>

\* for msg in ble.poll_messages(): the queue is drained into the batch
LoopPoll ==
    /\ dev.batch = <<>>
    /\ ble.inbound # <<>>
    /\ ble' = PollMessages(ble)
    /\ dev' = [dev EXCEPT !.batch = ble.inbound]
    /\ UNCHANGED <<db, disk, active_session_id, clock, last, ncmds, conn, fs, snap, chunkVars>>

\* the message the body of the loop runs on next
Taken(m) == Arrived([m EXCEPT !.d.batch = Tail(@)], Head(m.d.batch))

\* one pass of the body of the loop
LoopBody ==
    /\ dev.batch # <<>>
    /\ DevApply(LoopMessage(Taken(DevM), Head(dev.batch), <<>>, mono, clock, None))

\* the peer pauses once, for longer than a chunk sequence may take
LoopPause ==
    /\ mono <= CORTEX_CHUNK_TIMEOUT_S
    /\ mono' = mono + CORTEX_CHUNK_TIMEOUT_S + 1
    /\ UNCHANGED <<asm, feedOut, run, rt, storeVars>>

NextLoop == LoopArrive \/ LoopPoll \/ LoopBody \/ LoopPause

SpecLoop == InitDev /\ [][NextLoop]_vars

\* the body of the loop runs on a message
BodyRuns == dev'.nmsg = dev.nmsg + 1

\* what the assembler gives for the chunk line at the head of the batch
Assembled == Feed(asm, Head(dev.batch), mono).out

\* the message at the head of the batch is a command, or the chunk that
\* completes a sequence spelling a command
CompleteCmd ==
    \/ StartsWith(Head(dev.batch), StrCMD)
    \/ /\ StartsWith(Head(dev.batch), StrCHUNK)
       /\ Assembled \notin {NoneStr, RaisedStr}
       /\ StartsWith(Assembled, StrCMD)

PlainText == ~StartsWith(Head(dev.batch), StrCMD) /\ ~StartsWith(Head(dev.batch), StrCHUNK)

\* one string that is no chunk, or CHUNK:1/N .. CHUNK:N/N in this order
OneResponse(sent) ==
    \/ Len(sent) = 1 /\ ~StartsWith(sent[1], StrCHUNK)
    \/ /\ Len(sent) >= 2
       /\ \A i \in 1..Len(sent) : StartsWith(sent[i], FormatChunk(i, Len(sent), <<>>))

Lengths(sent) == [i \in 1..Len(sent) |-> Len(sent[i])]

\* a row and a file of the text the message is
NoteStored ==
    /\ Len(db'.notes) = Len(db.notes) + 1
    /\ db'.notes[Len(db'.notes)].content = TextStr(PlainTexts[Head(dev.batch)])
    /\ StampName(clock) \in DOMAIN fs'.notes

\* C35: each pass of the loop body takes the head of the drained batch and
\* leaves the rest for the following passes, whatever the pass did; what it
\* sends is appended whole to the outbound queue within the pass; a complete
\* command (a CMD: line, or the chunk completing a sequence that spells one)
\* is answered by exactly one response, one string or one full ascending
\* chunk group; a plain text is stored as a note and answered by nothing.
C35_OneResponseEach ==
    [][BodyRuns =>
          /\ dev'.got = Head(dev.batch) /\ dev'.batch = Tail(dev.batch)
          /\ ble'.outbound = ble.outbound \o Lengths(dev'.sent)
          /\ ble'.inbound = ble.inbound
          /\ (CompleteCmd => OneResponse(dev'.sent))
          /\ (PlainText => dev'.sent = <<>> /\ NoteStored)]_vars

\* the third message of a batch, after one that raised and one answered by
\* a single string, has been answered by two chunks
C35_Witness ==
    /\ dev.nmsg = 3 /\ dev.ble_errors = 1
    /\ dev.got = LongUnknown
    /\ Len(dev.sent) = 2 /\ OneResponse(dev.sent)
    /\ Len(ble.outbound) = 3
    /\ Len(ble.polled) = 3

(***************************************************************************)
(* Both transports at work on the one dispatcher: the main loop handles    *)
(* the lines of the BLE peer, chunk lines among them, and HTTP clients     *)
(* post commands to /api/cmd in between.  A request is taken from where    *)
(* _handle_cmd has read the body as a JSON object: command is the text of  *)
(* its "command" field and payload the text json.dumps gives for its       *)
(* "payload" field, NoneStr when there is none.                            *)
(***************************************************************************)
MaxMixMsgs == 3
MaxMixReqs == 2

\* the message of a request sent as it is, with no CMD: before it
CmdMessage_Bare(command, payload) ==
    IF payload # NoneStr THEN command \o <<ChColon>> \o payload ELSE command

\* "CMD:{}:{}".format(command, json.dumps(payload)), "CMD:{}".format(command)
CmdMessage(command, payload) ==
    IF payload # NoneStr THEN StrCMD \o command \o <<ChColon>> \o payload
    ELSE StrCMD \o command

\* _handle_cmd from "if not command" on: 400, or the message is handled
HandleCmdText(st, a, command, payload, now, t) ==
    IF command = <<>> THEN HmNone(st, a)
    ELSE HandleMessage(st, a, CmdMessage(command, payload), now, t, None)

\* the lines of the BLE peer: the two chunks of a note, ping, plain text
MixLines == NoteHalves \cup {StrCMD \o Spelling.ping, <<104, 105>>}

\* the "command" fields: none, ping, note, the second chunk of the peer's
\* note, a whole command in one chunk, "CMD:ping"
MixCommands ==
    {<<>>, Spelling.ping, Spelling.note, FormatChunk(2, 2, Drop(NoteLine, 20)),
     FormatChunk(1, 1, StrCMD \o Spelling.ping), StrCMD \o Spelling.ping}

\* the "payload" fields: none, {}, {"content": "hi"}
MixPayloads ==
    {NoneStr, <<123, 125>>,
     <<123, 34, 99, 111, 110, 116, 101, 110, 116, 34, 58, 32, 34, 104, 105, 34, 125>>}

\* the main loop handles a line of the peer
MixBle ==
    /\ dev.nmsg < MaxMixMsgs
    /\ \E msg \in MixLines :
           DevApply(LoopMessage(Arrived(DevM, msg), msg, <<>>, mono, clock, None))

\* the request is answered
MixServed(r, command, payload) ==
    /\ asm' = r.asm
    /\ db' = r.st.db
    /\ disk' = r.st.disk
    /\ active_session_id' = r.st.cell
    /\ last' = [cmd |-> "POST", payload |-> PEmpty, resp |-> r.st.resp,
                command |-> command, dumped |-> payload, during |-> asm # AsmEmpty]
    /\ ncmds' = ncmds + 1
    /\ UNCHANGED <<mono, feedOut, run, rt, clock, conn, fs, auxVars>>

\* an HTTP worker handles a POST /api/cmd
MixPost ==
    /\ ncmds < MaxMixReqs
    /\ \E command \in MixCommands, payload \in MixPayloads :
           MixServed(HandleCmdText(St, asm, command, payload, mono, clock), command, payload)

NextMix == MixBle \/ MixPost \/ LoopPause

SpecMix == InitDev /\ [][NextMix]_vars

\* what the request would have been answered had no chunk ever been fed
AnswerUnfed == HandleCmdText(St, AsmEmpty, last'.command, last'.dumped, mono, clock).st.resp

\* C40: a POST /api/cmd, whatever its command and payload, leaves the
\* dispatcher's assembler as it was and is answered as it would be with an
\* empty assembler: a chunk sequence in progress on BLE is neither reset
\* nor completed nor changed by it.
C40_AssemblerUntouched ==
    [][ncmds' = ncmds + 1 => asm' = asm /\ last'.resp = AnswerUnfed]_vars

\* after the first chunk of the peer's note a request whose command is the
\* text of the second chunk was answered "unknown command"; the peer's
\* second chunk then completed the note, acknowledged with id 1
C40_Witness ==
    /\ ncmds = 1 /\ last.during /\ last.command = FormatChunk(2, 2, Drop(NoteLine, 20))
    /\ last.resp.kind = "ERR" /\ last.resp.body = "unknown command"
    /\ dev.got = FormatChunk(2, 2, Drop(NoteLine, 20))
    /\ dev.sent = <<ResponseText(Ack("note", 1))>>
    /\ asm = AsmEmpty /\ Len(db.notes) = 1

(***************************************************************************)
(* Callers of get_recent_notes: notes of two projects and two types are    *)
(* inserted, seconds pass, and the recent notes are asked for.             *)
(***************************************************************************)
MaxRecentNotes == 3

RecentLimits == {0, 1, 2, 10}

RecentProjects == {None, "", "cortex", "home"}

RecentTypes == {None, "note", "voice"}

\* the call returns rows
Recent(rows, limit, project, note_type) ==
    /\ last' = [cmd |-> "get_recent_notes", limit |-> limit, project |-> project,
                note_type |-> note_type, rows |-> rows]
    /\ UNCHANGED <<db, disk, active_session_id, ncmds, clock, conn, fs, auxVars, chunkVars>>

RecentInsert ==
    /\ Len(db.notes) < MaxRecentNotes
    /\ \E project \in {"cortex", "home"}, note_type \in {"note", "voice"} :
           Called(insert_note(St, "hi", "", project, note_type, "ble", None, clock),
                  "insert_note", None)

RecentAsk ==
    /\ db.notes # <<>>
    /\ \E limit \in RecentLimits, project \in RecentProjects, note_type \in RecentTypes :
           \E rows \in get_recent_notes(db, limit, project, note_type) :
               Recent(rows, limit, project, note_type)

NextRecent == RecentInsert \/ RecentAsk \/ Tick

SpecRecent == Init /\ [][NextRecent]_vars

Asked == last.cmd = "get_recent_notes"

\* the notes of the store that match the filters of the last call
AskedFor == Matching(db.notes, last.project, last.note_type)

\* C27: get_recent_notes(limit, project, note_type) returns at most limit
\* notes, only notes matching the given project and note_type, most recently
\* inserted first: the matching note inserted last is the first element, also
\* when several notes share the same created_at.
C27_LastInsertedFirst ==
    Asked =>
        /\ Len(last.rows) <= last.limit
        /\ \A i \in 1..Len(last.rows) : NoteMatches(last.rows[i], last.project, last.note_type)
        /\ last.rows # <<>> => last.rows[1] = AskedFor[Len(AskedFor)]
        /\ last.limit > 0 /\ AskedFor # <<>> => last.rows # <<>>

\* C27, what the statement gives: at most limit notes, each a matching note of
\* the store and none twice, created_at never rising, no note left out that
\* is newer by created_at than one returned, and none left out below limit.
C27_NewestByTimestamp ==
    Asked =>
        /\ Len(last.rows) = Min(last.limit, Len(AskedFor))
        /\ \A i \in 1..Len(last.rows) : \E j \in 1..Len(AskedFor) : last.rows[i] = AskedFor[j]
        /\ \A i, j \in 1..Len(last.rows) : last.rows[i].id = last.rows[j].id => i = j
        /\ CreatedDesc(last.rows)
        /\ \A j \in 1..Len(AskedFor) :
               (\A i \in 1..Len(last.rows) : last.rows[i].id # AskedFor[j].id) =>
                   \A i \in 1..Len(last.rows) : last.rows[i].created_at >= AskedFor[j].created_at

\* two notes of one project inserted in the same second and asked for by
\* project: the older one comes first
C27_OlderFirst ==
    /\ Asked
    /\ last.project = "cortex"
    /\ Len(last.rows) = 2
    /\ last.rows[1].id < last.rows[2].id
    /\ last.rows[1].created_at = last.rows[2].created_at

(***************************************************************************)
(* The dispatcher shared by the main loop and the HTTP worker threads.     *)
(* handle_message takes no lock, so a thread can be switched out between   *)
(* two statements of a handler: between a call of the store (a statement   *)
(* and its commit, taken here as one step) and the assignment of the       *)
(* cell.  conn.th[t] is the handler thread t is in: the statement it is at *)
(* and its local session_id; conn.acks is what the responses have told the *)
(* peers about the sessions.                                               *)
(***************************************************************************)
MaxSessNotes == 1

\* thread t is inside a handler
InCall(pc, op, session_id) ==
    [pc |-> pc, op |-> op, table |-> "", tag |-> "", rowid |-> 0, session_id |-> session_id]

SessFrame == UNCHANGED <<clock, last, ncmds, fs, auxVars, chunkVars>>

\* the ids the responses have carried
Known == {conn.acks[i].id : i \in 1..Len(conn.acks)}

Told(acks, u) ==
    IF \E i \in 1..Len(acks) : acks[i].id = u THEN acks
    ELSE Append(acks, [table |-> "sessions", tag |-> "", id |-> u])

RECURSIVE ToldRows(_, _)
ToldRows(acks, rows) ==
    IF rows = <<>> THEN acks ELSE ToldRows(Told(acks, rows[1].id), Tail(rows))

\* _cmd_session_start: session_id = self._db.start_session(...)
TStartExec ==
    \E t \in Threads, u \in FreshUuids :
        /\ conn.th[t].pc = "idle"
        /\ db' = start_session(St, u, "claude", "", "", clock).db
        /\ disk' = start_session(St, u, "claude", "", "", clock).disk
        /\ conn' = [conn EXCEPT !.th[t] = InCall("set", "session_start", u)]
        /\ UNCHANGED active_session_id
        /\ SessFrame

\* _cmd_session_start: self._active_session_id = session_id; return the ACK
TStartSet ==
    \E t \in Threads :
        /\ conn.th[t].pc = "set"
        /\ active_session_id' = SessionStarted([St EXCEPT !.ret = conn.th[t].session_id]).cell
        /\ conn' = [conn EXCEPT !.th[t] = ThIdle, !.acks = Told(@, conn.th[t].session_id)]
        /\ UNCHANGED <<db, disk>>
        /\ SessFrame

\* the session_end payloads: no session_id, or one a response has carried
EndDatas == {EmptyObj} \cup {[session_id |-> u] : u \in Known}

\* _cmd_session_end: session_id = data.get("session_id", self._active_session_id);
\* if not session_id: return the ERR
TEndRead ==
    \E t \in Threads, data \in EndDatas :
        /\ conn.th[t].pc = "idle"
        /\ ~Falsy(Get(data, "session_id", active_session_id))
        /\ conn' = [conn EXCEPT !.th[t] =
                        InCall("end", "session_end", Get(data, "session_id", active_session_id))]
        /\ UNCHANGED <<db, disk, active_session_id>>
        /\ SessFrame

\* _cmd_session_end: ok = self._db.end_session(...)
TEndExec ==
    \E t \in Threads :
        /\ conn.th[t].pc = "end"
        /\ db' = end_session(St, conn.th[t].session_id, "", "", clock).db
        /\ disk' = end_session(St, conn.th[t].session_id, "", "", clock).disk
        /\ conn' = [conn EXCEPT !.th[t].pc = "clear"]
        /\ UNCHANGED active_session_id
        /\ SessFrame

\* _cmd_session_end: if session_id == self._active_session_id: the cell is
\* cleared; return
TEndClear ==
    \E t \in Threads :
        /\ conn.th[t].pc = "clear"
        /\ active_session_id' = SessionEnded([St EXCEPT !.ret = TRUE], conn.th[t].session_id).cell
        /\ conn' = [conn EXCEPT !.th[t] = ThIdle]
        /\ UNCHANGED <<db, disk>>
        /\ SessFrame

\* _cmd_note: session_id=self._active_session_id is evaluated
TNoteRead ==
    \E t \in Threads :
        /\ conn.th[t].pc = "idle"
        /\ Len(db.notes) + Cardinality({o \in Threads : conn.th[o].pc = "insert"}) < MaxSessNotes
        /\ conn' = [conn EXCEPT !.th[t] = InCall("insert", "note", SessionLink(St))]
        /\ UNCHANGED <<db, disk, active_session_id>>
        /\ SessFrame

\* _cmd_note: self._db.insert_note(...); return
TNoteExec ==
    \E t \in Threads :
        /\ conn.th[t].pc = "insert"
        /\ db' = insert_note(St, "hi", "", "", "note", "ble", conn.th[t].session_id, clock).db
        /\ disk' = insert_note(St, "hi", "", "", "note", "ble", conn.th[t].session_id, clock).disk
        /\ conn' = [conn EXCEPT !.th[t] = ThIdle]
        /\ UNCHANGED active_session_id
        /\ SessFrame

\* _cmd_query on the sessions table: the rows are returned
TQuery ==
    \E t \in Threads :
        /\ conn.th[t].pc = "idle"
        /\ conn' = [conn EXCEPT !.acks = ToldRows(@, db.sessions)]
        /\ UNCHANGED <<db, disk, active_session_id>>
        /\ SessFrame

NextSess ==
    \/ TStartExec \/ TStartSet \/ TEndRead \/ TEndExec \/ TEndClear
    \/ TNoteRead \/ TNoteExec \/ TQuery \/ Tick

SpecSess == Init /\ [][NextSess]_vars

\* the cell is empty or holds the id of a session that has not ended
CellOpen == active_session_id = None \/ SessionOpenIn(db, active_session_id)

\* a thread is between the store write and the cell update of its command
Between(t) == conn.th[t].pc \in {"set", "clear"}

\* a step of another thread while one is between its write and its update
Separated ==
    \E t \in Threads : \E o \in Threads \ {t} : Between(t) /\ conn'.th[o] # conn.th[o]

\* C28: under any interleaving of session_start, session_end, query and note
\* commands on the shared dispatcher by the main loop and the HTTP threads,
\* in every reachable state the active-session cell is empty or holds the id
\* of a session row whose ended_at is null, and the store write and the cell
\* update of one command are never separated by another command's effect.
C28_CellAndStoreTogether == []CellOpen /\ [][~Separated]_vars

\* no command is in progress and the cell holds the id of an ended session
C28_EndedCellAtRest == (\A t \in Threads : conn.th[t].pc = "idle") /\ ~CellOpen

\* C28, what holds: the cell is empty or holds the id of a row of sessions,
\* ended or not
C28_CellNamesSession ==
    active_session_id = None
        \/ \E i \in 1..Len(db.sessions) : db.sessions[i].id = active_session_id

\* a note has been linked to a session that had ended before it was written
C28_NoteInEndedSession ==
    \E i \in 1..Len(db.notes), j \in 1..Len(db.sessions) :
        /\ db.notes[i].session_id = db.sessions[j].id
        /\ db.sessions[j].ended_at # NullTime
        /\ db.sessions[j].ended_at < db.notes[i].created_at

(***************************************************************************)
(* A peer whose chunk sequences are interrupted: by a chunk of another     *)
(* total, by a pause of more than 30 seconds, by a line that is no chunk.  *)
(* run is what the peer has sent: the chunks of the sequence in progress   *)
(* (parts, by sequence number), its total and the time of its first chunk, *)
(* the last line, and which interruptions have happened.                   *)
(***************************************************************************)
MaxSeqTotal == 2
MaxSeqMsgs == 4

\* the two halves of CMD:note:{"content":"hi"}
SeqDatas ==
    {<<67, 77, 68, 58, 110, 111, 116, 101, 58, 123, 34, 99, 111, 110, 116, 101, 110, 116, 34, 58>>,
     <<34, 104, 105, 34, 125>>}

NoParts == [i \in {} |-> <<>>]

SeqNone ==
    [parts |-> NoParts, total |-> 0, first |-> 0, kind |-> "none", seq |-> 0,
     data |-> <<>>, restart |-> FALSE, late |-> FALSE, differs |-> FALSE, bad |-> FALSE]

\* every chunk of the sequence in progress has been sent
Complete(h) == h.total > 0 /\ DOMAIN h.parts = 1..h.total

\* a sequence is in progress: some of its chunks have been sent, not all
Accumulating(h) == DOMAIN h.parts # {} /\ ~Complete(h)

IsLate(h) == Accumulating(h) /\ mono - h.first > CORTEX_CHUNK_TIMEOUT_S

Differs(h, total) == Accumulating(h) /\ total # h.total

\* the chunk seq/total begins a new sequence
Begun(h, seq, total, data) ==
    [h EXCEPT !.parts = (seq :> data), !.total = total, !.first = mono]

\* the chunk seq/total has been sent
AfterChunk(h, seq, total, data) ==
    [(IF Accumulating(h) /\ ~IsLate(h) /\ ~Differs(h, total)
      THEN [h EXCEPT !.parts = (seq :> data) @@ @]
      ELSE Begun(h, seq, total, data))
        EXCEPT !.kind = "chunk", !.seq = seq, !.data = data,
               !.restart = IsLate(h) \/ Differs(h, total),
               !.late = @ \/ IsLate(h),
               !.differs = @ \/ Differs(h, total)]

\* a line that is no chunk, or a chunk of a total no list can hold, has been sent
AfterLine(h, kind) ==
    [h EXCEPT !.parts = NoParts, !.total = 0, !.first = 0, !.kind = kind,
              !.restart = FALSE, !.bad = @ \/ (kind = "bad" /\ Accumulating(h))]

InitSeq ==
    /\ StoreIdle
    /\ asm = AsmEmpty
    /\ mono = 1
    /\ feedOut = NoneStr
    /\ run = SeqNone
    /\ rt = RtIdle

\* handle_message returns (or raises) on the line
SeqHandled(r, line, fed, h) ==
    /\ asm' = r.asm
    /\ feedOut' = fed
    /\ db' = r.st.db
    /\ disk' = r.st.disk
    /\ active_session_id' = r.st.cell
    /\ last' = [cmd |-> "", payload |-> PEmpty, resp |-> r.st.resp,
                raised |-> r.raised, raw |-> line]
    /\ ncmds' = ncmds + 1
    /\ run' = h
    /\ UNCHANGED <<mono, rt, clock, conn, fs, auxVars>>

SeqReceive(line, h) ==
    SeqHandled(HandleMessage(St, asm, line, mono, clock, None), line, Feed(asm, line, mono).out, h)

SeqChunk ==
    /\ ncmds < MaxSeqMsgs
    /\ \E total \in 1..MaxSeqTotal, data \in SeqDatas :
           \E seq \in 1..total :
               SeqReceive(FormatChunk(seq, total, data), AfterChunk(run, seq, total, data))

SeqBad ==
    /\ ncmds < MaxSeqMsgs
    /\ \E line \in BadLines : SeqReceive(line, AfterLine(run, "bad"))

SeqHuge ==
    /\ ncmds < MaxSeqMsgs
    /\ SeqReceive(HugeLine, AfterLine(run, "huge"))

NextSeq == SeqChunk \/ SeqBad \/ SeqHuge \/ TickMono

SpecSeq == InitSeq /\ [][NextSeq]_vars

\* feed has returned a message
FeedReturned == feedOut \notin {NoneStr, RaisedStr}

\* the message is the chunks sent since the last interruption, all of them,
\* joined in sequence order
FromPartsSent == Complete(run) /\ feedOut = Join([i \in 1..run.total |-> run.parts[i]])

\* the assembler holds the chunk just sent and nothing else, or has returned
\* it when it is a sequence of its own
StoredFirst ==
    IF run'.total = 1
    THEN feedOut' = run'.data /\ asm' = AsmEmpty
    ELSE /\ feedOut' = NoneStr
         /\ asm' = [chunks |-> [i \in 1..run'.total |-> IF i = run'.seq THEN run'.data ELSE NoneStr],
                    expected |-> run'.total, received |-> {run'.seq}, started |-> mono]

\* C29: while a sequence of total N is accumulating, a well-formed chunk
\* (CHUNK:n/M:data, 1 <= n <= M) whose total differs from N, or that arrives
\* more than 30 seconds after the first chunk of the sequence, discards the
\* stored chunks and is stored as the first chunk of a new sequence; a
\* message returned later is made of chunks sent since, and of nothing that
\* was discarded.
C29_NewSequence ==
    /\ [][ncmds' = ncmds + 1 /\ run'.kind = "chunk" /\ run'.restart => StoredFirst]_vars
    /\ [](FeedReturned => FromPartsSent)

\* a sequence was cut by a late chunk, another by a chunk of another total,
\* and a message has been returned since
C29_Witness ==
    /\ run.late
    /\ run.differs
    /\ FeedReturned
    /\ run.kind = "chunk"

\* C30: a CHUNK: line with a non-numeric seq or total, or without the '/' or
\* ':' delimiter, yields no output and resets the assembler to the empty
\* state; handle_message returns no response and changes neither the store
\* nor the active-session cell; the chunks sent before it complete no
\* message: a message returned later is made of chunks all sent again.
C30_MalformedResets ==
    /\ [][ncmds' = ncmds + 1 /\ run'.kind = "bad" =>
              /\ feedOut' = NoneStr
              /\ asm' = AsmEmpty
              /\ last'.resp = NoResp
              /\ ~last'.raised
              /\ UNCHANGED <<db, disk, active_session_id>>]_vars
    /\ [](run.bad /\ FeedReturned => FromPartsSent)

\* the first chunk of two was sent, then a malformed line, then the second
\* chunk: no message
C30_Witness ==
    /\ run.bad
    /\ run.kind = "chunk"
    /\ run.seq = 2
    /\ DOMAIN run.parts = {2}
    /\ feedOut = NoneStr
    /\ asm # AsmEmpty

====
